---- MODULE Spec2Model ----
(***************************************************************************)
(* Streaming response orchestration of app/server.py: the /ws connection   *)
(* handler (websocket_endpoint), stream_response with its generation loop, *)
(* the sentence queue, the synthesis worker tts_consumer and the session   *)
(* interruption registry session_states.                                   *)
(*                                                                         *)
(* Text is a sequence of Unicode code points.  asyncio tasks are           *)
(* interleaved at their await points: one action is the code a task runs   *)
(* from one await to the next.                                             *)
(***************************************************************************)
EXTENDS Integers, Sequences, FiniteSets, TLC

\* ------------------------------------------------------------------ bounds
\* Number of send_message requests the connection handler accepts.
MaxRequests == 2

\* Longest text given to the sentence segmenter on its own.
MaxBufferLen == 4

\* Longest partial transcript of the merge inputs built from two characters.
MaxPartialLen == 2

\* Number of inbound messages a realtime-speech connection handles.
MaxMessages == 4

\* Number of process_results tasks a realtime-speech connection creates.
MaxTasks == 2

\* Longest merged transcript a forced finalization may add to.
MaxTranscriptLen == 2

\* Number of inbound messages of a realtime-speech connection in the runs
\* checked under the event loop's fairness.
MaxLiveMessages == 3

\* ------------------------------------------------------------- characters
\* SentenceEndChars with the full-width comma added.
SentenceEndChars_WithComma ==
    {12290, 65281, 65311, 46, 33, 63, 59, 65307, 65292}

\* The character class of sentence_endings / EdgeTTS.SENTENCE_ENDINGS:
\* 。 ！ ？ . ! ? ; ；
SentenceEndChars == {12290, 65281, 65311, 46, 33, 63, 59, 65307}

\* Characters matched by \s and removed by str.strip().
WhiteSpace == {9, 10, 11, 12, 13, 28, 29, 30, 31, 32, 133, 160, 12288}

\* Python's None where a session id is expected (stream_response called
\* without session_id).
None == "None"

\* A missing or falsy requestId (None, "", 0): request ids are integers.
NoRequestId == 0

\* The stop sentinel put on tts_queue (Python None); no text equals it.
Sentinel == <<-1>>

\* str.strip(): drop leading and trailing whitespace.
RECURSIVE LStrip(_)
LStrip(s) ==
    IF s # <<>> /\ Head(s) \in WhiteSpace THEN LStrip(Tail(s)) ELSE s

RECURSIVE RStrip(_)
RStrip(s) ==
    IF s # <<>> /\ s[Len(s)] \in WhiteSpace
    THEN RStrip(SubSeq(s, 1, Len(s) - 1)) ELSE s

\* Strip keeping only the first character of the stripped text.
Strip_Truncating(s) ==
    IF RStrip(LStrip(s)) = <<>> THEN <<>> ELSE <<Head(RStrip(LStrip(s)))>>

Strip(s) == RStrip(LStrip(s))

\* Number of whitespace characters of s starting at position i (the \s* of
\* the pattern, greedy).
RECURSIVE SpaceRun(_, _)
SpaceRun(s, i) ==
    IF i <= Len(s) /\ s[i] \in WhiteSpace THEN 1 + SpaceRun(s, i + 1) ELSE 0

\* MatchEnd taking the character after the sentence end instead of the
\* whitespace.
MatchEnd_OneMore(buffer) ==
    LET hits == {i \in 1..Len(buffer) : buffer[i] \in SentenceEndChars}
    IN  IF hits = {} THEN 0
        ELSE LET first == CHOOSE i \in hits : \A j \in hits : i <= j
             IN  IF first < Len(buffer) THEN first + 1 ELSE first

\* MatchEnd of a pattern that looks ahead to the sentence end instead of
\* behind: the match ends before the sentence-ending character.
MatchEnd_LookAhead(buffer) ==
    LET hits == {i \in 1..Len(buffer) : buffer[i] \in SentenceEndChars}
    IN  IF hits = {} THEN 0
        ELSE (CHOOSE i \in hits : \A j \in hits : i <= j) - 1

\* sentence_endings.search(buffer).end(), 0 when there is no match: the
\* leftmost position preceded by a sentence-ending character, extended over
\* the whitespace that follows.
MatchEnd(buffer) ==
    LET hits == {i \in 1..Len(buffer) : buffer[i] \in SentenceEndChars}
    IN  IF hits = {} THEN 0
        ELSE LET first == CHOOSE i \in hits : \A j \in hits : i <= j
             IN  first + SpaceRun(buffer, first + 1)

\* The extraction loop run after each fragment: the sentences to enqueue, in
\* order, and the buffer that is left.  One application is one turn of the
\* while loop on the current value of sentence_buffer.
ExtractSentences[buffer \in Seq(Int), acc \in Seq(Seq(Int))] ==
    LET e == MatchEnd(buffer)
    IN  IF e = 0 THEN [sentences |-> acc, buffer |-> buffer]
        ELSE LET sentence == Strip(SubSeq(buffer, 1, e))
                 rest == SubSeq(buffer, e + 1, Len(buffer))
             IN  ExtractSentences[rest,
                    IF sentence # <<>> THEN Append(acc, sentence) ELSE acc]

\* Concatenation of a sequence of texts.
RECURSIVE Concat(_)
Concat(ss) == IF ss = <<>> THEN <<>> ELSE Head(ss) \o Concat(Tail(ss))

\* EdgeTTS.split_into_sentences, the finditer loop from position i on: a
\* match ends after every sentence-ending character and the whitespace
\* that follows it; what is left after the last match is stripped and kept
\* when it is not blank.
SplitLoop[text \in Seq(Int), i, last_end \in Nat, sentences \in Seq(Seq(Int))] ==
    IF i > Len(text)
    THEN LET remaining == Strip(SubSeq(text, last_end + 1, Len(text)))
         IN  IF remaining # <<>> THEN Append(sentences, remaining)
             ELSE sentences
    ELSE IF text[i] \in SentenceEndChars
    THEN LET end == i + SpaceRun(text, i + 1)
             sentence == Strip(SubSeq(text, last_end + 1, end))
         IN  SplitLoop[text, i + 1, end,
                IF sentence # <<>> THEN Append(sentences, sentence)
                ELSE sentences]
    ELSE SplitLoop[text, i + 1, last_end, sentences]

split_into_sentences(text) ==
    IF text = <<>> THEN <<>> ELSE SplitLoop[text, 1, 0, <<>>]

\* Characters of the texts given to the segmenter on its own: a letter, a
\* space, an ASCII and a full-width sentence end.
SegAlphabet == {65, 32, 63, 12290}

\* All texts over alphabet of at most n characters.
Texts(alphabet, n) == UNION {[1..k -> alphabet] : k \in 0..n}

\* The zip loop of merge_text: the number of leading positions, from i on,
\* at which last_text and new_text have the same character.
CommonPrefixLen[last_text \in Seq(Int), new_text \in Seq(Int), i \in Nat] ==
    IF i <= Len(last_text) /\ i <= Len(new_text) /\ last_text[i] = new_text[i]
    THEN 1 + CommonPrefixLen[last_text, new_text, i + 1]
    ELSE 0

\* merge_text appending the whole new text whatever the last one was.
merge_text_AppendAll(full_text, last_text, new_text) ==
    << full_text \o new_text, new_text >>

\* merge_text taking the prefix length as 0 when the new text is shorter
\* than the last one.
merge_text_ShorterAppendsAll(full_text, last_text, new_text) ==
    IF last_text = <<>> \/ Len(new_text) < Len(last_text)
    THEN << full_text \o new_text, new_text >>
    ELSE << full_text \o SubSeq(new_text,
                           CommonPrefixLen[last_text, new_text, 1] + 1,
                           Len(new_text)),
            new_text >>

\* merge_text: the new full_text and the new last_text.
merge_text(full_text, last_text, new_text) ==
    IF last_text = <<>> THEN << full_text \o new_text, new_text >>
    ELSE LET prefix_len == CommonPrefixLen[last_text, new_text, 1]
             append_part == SubSeq(new_text, prefix_len + 1, Len(new_text))
         IN  << full_text \o append_part, new_text >>

\* "你好世界"
NiHaoShiJie == <<20320, 22909, 19990, 30028>>

\* Transcripts given to merge_text on its own: every text of "你" and "好"
\* up to the bound, and "你好世界".
MergeTexts == Texts({20320, 22909}, MaxPartialLen) \cup {NiHaoShiJie}

\* ------------------------------------------------------------ collaborators
\* The one chat session of the connection (str(uuid.uuid4()) at accept).
SessionId == "s1"

\* requestId values a client puts in send_message.
ClientRequestIds == {1}

\* uuid.uuid4() for the n-th request of the connection: fresh, and never a
\* client-supplied id.
Uuid4(n) == 100 + n

\* Results of retriever.invoke(question): no document, or two documents,
\* one with a page and one with only a chunk id in its metadata.
DocResults ==
    { <<>>,
      << [source |-> "a.pdf", page |-> 3],
         [source |-> "b.txt", chunk_id |-> 7] >> }

\* The citation built for one document.
SourceOf(d) ==
    [ source  |-> IF "source" \in DOMAIN d THEN d.source ELSE "unknown",
      locator |-> IF "page" \in DOMAIN d
                  THEN <<"page", d.page>>
                  ELSE IF "chunk_id" \in DOMAIN d
                  THEN <<"chunk", d.chunk_id>> ELSE <<"chunk">> ]

Sources(docs) == [i \in 1..Len(docs) |-> SourceOf(docs[i])]

\* Fragment sequences rag_chain.stream can yield.
\* "你好，" "世界。" "今天天气不错"
ScriptGreeting ==
    << <<20320, 22909, 65292>>, <<19990, 30028, 12290>>,
       <<20170, 22825, 22825, 27668, 19981, 38169>> >>
\* "A?B; " "" " C"  (two sentences in one fragment, whitespace after a
\* sentence and before the remainder, an empty fragment)
ScriptMixed == << <<65, 63, 66, 59, 32>>, <<>>, <<32, 67>> >>

Scripts == {ScriptGreeting, ScriptMixed}

\* The fixed text of the response_end sent when retrieval finds nothing:
\* "抱歉，我不确定，可能未在知识库中找到相关内容。"
NoResultText ==
    <<25265, 27465, 65292, 25105, 19981, 30830, 23450, 65292, 21487, 33021,
      26410, 22312, 30693, 35782, 24211, 20013, 25214, 21040, 30456, 20851,
      20869, 23481, 12290>>

\* ------------------------------------------------------------------- state
VARIABLES
    connected,          \* the websocket transport is open
    rag_ready,          \* rag_chain and retriever are initialised
    edge_tts_instance,  \* the global EdgeTTS instance exists
    active_connections, \* session ids with an entry in active_connections
    user_sessions,      \* session id -> number of chat_history entries
    session_states,     \* session id -> [current_request_id, is_interrupted]
    reg_writes,         \* values the session's entry took in the last send_message
    hpc,                \* where the connection handler is suspended
    nreq,               \* requests accepted so far; the current one is nreq
    req,                \* arguments of the running stream_response call
    retrieved,          \* outcome of retriever.invoke for the current request
    gen,                \* rag_chain.stream: [script, pos]
    gen_exit,           \* how the generation loop was left
    sources,            \* citations built from the retrieved documents
    response_text,      \* accumulated answer
    sentence_buffer,    \* text not yet cut into a sentence
    tts_queue,          \* asyncio.Queue of the current request
    enqueued,           \* every item put on tts_queue, in order
    worker,             \* request number -> tts_consumer task
    tts_done,           \* request number -> asyncio.Event is set
    sent,               \* events written to the websocket since the last
                        \* inbound message was read
    h_sending,          \* stream_response is suspended in the send_text of a
                        \* response_chunk
    w_sending,          \* workers suspended in the send_text of an audio_chunk
    data,               \* the inbound text websocket_endpoint read last
    seg_pc,             \* segmenter on its own: "input", "extracted", "split"
    seg_buffer,         \* the text given to the segmenter
    seg_result,         \* what the extraction loop returned for it
    seg_split,          \* what split_into_sentences returned for it
    seg_stream,         \* the generation loop's sentence handling run on it
    merge_pc,           \* merge_text on its own: "input", "merged"
    merge_args,         \* its arguments [full_text, last_text, new_text]
    merge_result,       \* the pair it returned
    rpc,                \* realtime-speech handler: "recv" or "closed"
    r_connected,        \* its websocket transport is open
    voice_interface,    \* voice_interface and its stt are initialised
    nmsg,               \* inbound messages handled so far
    r_message,          \* the inbound text realtime_speech_endpoint read last
    stt_instance,       \* the IicRealtimeSTT of the connection, or NoStt
    stt_op,             \* what the last step did to the decoder cache
    stt_log,            \* the failure the decoder logged in the last step
    streaming_started,  \* the handler's flag
    r_state,            \* the state dict: full_text, last_text, last_recog_time
    result_queue,       \* asyncio.Queue of recognition results
    tasks,              \* task number -> process_results task
    ntasks,             \* process_results tasks created so far
    r_sent              \* events written to the realtime-speech websocket

vars == << connected, rag_ready, edge_tts_instance, active_connections,
           user_sessions, session_states, reg_writes, hpc, nreq, req,
           retrieved, gen, gen_exit, sources, response_text, sentence_buffer, tts_queue,
           enqueued, worker, tts_done, sent, h_sending, w_sending, data,
           seg_pc, seg_buffer, seg_result, seg_split, seg_stream,
           merge_pc, merge_args, merge_result,
           rpc, r_connected, voice_interface, nmsg, r_message, stt_instance, stt_op, stt_log,
           streaming_started, r_state, result_queue, tasks, ntasks, r_sent >>

\* State of the components run on their own; the chat connection never
\* touches it.
segmenter == << seg_pc, seg_buffer, seg_result, seg_split, seg_stream >>
merging == << merge_pc, merge_args, merge_result >>
speech == << rpc, r_connected, voice_interface, nmsg, r_message, stt_instance,
            stt_op, stt_log,
            streaming_started, r_state, result_queue, tasks, ntasks, r_sent >>
elsewhere == << segmenter, merging, speech >>

Requests == 1..MaxRequests

NoWorker == [pc |-> "none", sentence |-> <<>>, request_id |-> NoRequestId,
             session_id |-> None, auto_tts |-> FALSE]

\* A task that has finished: its frame and closure are released.
DoneWorker == [NoWorker EXCEPT !.pc = "done"]

NoRequest == [request_id |-> NoRequestId, session_id |-> None,
              auto_tts |-> FALSE]

\* ------------------------------------------------------------------ events
Event(type, rid, content, srcs, interrupted) ==
    [type |-> type, requestId |-> rid, content |-> content,
     sources |-> srcs, isInterrupted |-> interrupted]

ResponseStart(rid) == Event("response_start", rid, <<>>, <<>>, "absent")
ResponseChunk(rid, chunk) == Event("response_chunk", rid, chunk, <<>>, "absent")
\* The audio of one sentence; content names the sentence it was made from.
AudioChunk(rid, sentence) == Event("audio_chunk", rid, sentence, <<>>, "absent")
\* NoResultEnd sent as a text fragment instead of the terminal summary.
NoResultEnd_AsChunk(rid) == ResponseChunk(rid, NoResultText)

NoResultEnd(rid) == Event("response_end", rid, NoResultText, <<>>, "absent")
ResponseEnd(rid, text, srcs, interrupted) ==
    Event("response_end", rid, text, srcs, interrupted)
ErrorEvent == Event("error", NoRequestId, <<>>, <<>>, "absent")

\* ---------------------------------------------------- interruption registry
\* should_interrupt_tts() of a stream_response called with session id sid.
ShouldInterruptTts(states, sid) ==
    IF sid = None THEN FALSE
    ELSE IF sid \in DOMAIN states THEN states[sid].is_interrupted
    ELSE FALSE

\* SetCurrentRequest with the flag cleared before, not after, the old
\* request is marked interrupted.
SetCurrentRequest_ClearFirst(state, rid) ==
    LET old == state.current_request_id
        mark == rid # NoRequestId /\ old # NoRequestId /\ old # rid
        s1 == [state EXCEPT !.is_interrupted = FALSE]
        s2 == IF mark THEN [s1 EXCEPT !.is_interrupted = TRUE] ELSE s1
        s3 == [s2 EXCEPT !.current_request_id = rid]
    IN  <<s1>> \o (IF mark THEN <<s2>> ELSE <<>>) \o <<s3>>

\* SetCurrentRequest without the closing assignment: the flag stays as the
\* marking of the old request left it.
SetCurrentRequest_NoClear(state, rid) ==
    LET old == state.current_request_id
        mark == rid # NoRequestId /\ old # NoRequestId /\ old # rid
        s1 == IF mark THEN [state EXCEPT !.is_interrupted = TRUE] ELSE state
        s2 == [s1 EXCEPT !.current_request_id = rid]
    IN  (IF mark THEN <<s1>> ELSE <<>>) \o <<s2, s2>>

\* The registry update of a send_message with request id rid: the values
\* the session's entry takes, one per assignment, in program order.  The
\* last one is the entry the step leaves.
SetCurrentRequest(state, rid) ==
    LET old == state.current_request_id
        mark == rid # NoRequestId /\ old # NoRequestId /\ old # rid
        s1 == IF mark THEN [state EXCEPT !.is_interrupted = TRUE] ELSE state
        s2 == [s1 EXCEPT !.current_request_id = rid]
        s3 == [s2 EXCEPT !.is_interrupted = FALSE]
    IN  (IF mark THEN <<s1>> ELSE <<>>) \o <<s2, s3>>

\* The value of isInterrupted in response_end, as json.dumps writes it.
IsInterruptedJson(states, sid) ==
    IF sid = None THEN "null"
    ELSE IF ShouldInterruptTts(states, sid) THEN "true" ELSE "false"

\* ------------------------------------------------------------------- queue
\* tts_queue.put(item) on the unbounded queue.
QueuePut(q, item) == Append(q, item)

\* QueueGet taking the newest item instead of the oldest.
QueueGet_Last(q) == [item |-> q[Len(q)], rest |-> SubSeq(q, 1, Len(q) - 1)]

\* The item tts_queue.get() returns, and the queue it leaves.
QueueGet(q) == [item |-> Head(q), rest |-> Tail(q)]

\* DrainItems with the sentinel put before the remainder.
DrainItems_SentinelFirst(auto_tts, buffer) ==
    <<Sentinel>>
    \o (IF auto_tts /\ Strip(buffer) # <<>> THEN <<Strip(buffer)>> ELSE <<>>)

\* The finally clause of the generation loop: the stripped remainder, when
\* it is not blank, and then the stop sentinel.
DrainItems(auto_tts, buffer) ==
    (IF auto_tts /\ Strip(buffer) # <<>> THEN <<Strip(buffer)>> ELSE <<>>)
    \o <<Sentinel>>

\* ---------------------------------------------------------- initial state
\* The generation loop before the first fragment of the text: nothing
\* read, sentence_buffer empty, nothing put on the queue.
NoStream == [pos |-> 0, sentence_buffer |-> <<>>, enqueued |-> <<>>,
             fragments |-> 0]

\* No text has been given to the segmenter.
SegIdle ==
    /\ seg_pc = "input"
    /\ seg_buffer = <<>>
    /\ seg_result = [sentences |-> <<>>, buffer |-> <<>>]
    /\ seg_split = <<>>
    /\ seg_stream = NoStream

\* merge_text has not been called.
MergeIdle ==
    /\ merge_pc = "input"
    /\ merge_args = [full_text |-> <<>>, last_text |-> <<>>, new_text |-> <<>>]
    /\ merge_result = << <<>>, <<>> >>

\* No IicRealtimeSTT has been created (stt_instance = None).
NoStt == [instance |-> FALSE, streaming_active |-> FALSE, cache |-> "None",
          audio_buffer |-> 0, callback |-> FALSE]

\* The state dict of a recognition session as start leaves it.
FreshState == [full_text |-> <<>>, last_text |-> <<>>,
               last_recog_time |-> "None"]

NoTask == [pc |-> "none"]

\* The /ws/realtime-speech connection has been accepted.
SpeechInit ==
    /\ rpc = "recv"
    /\ r_connected = TRUE
    /\ voice_interface \in BOOLEAN
    /\ r_message = "None"
    /\ nmsg = 0
    /\ stt_instance = NoStt
    /\ stt_op = "none"
    /\ stt_log = "none"
    /\ streaming_started = FALSE
    /\ r_state = FreshState
    /\ result_queue = <<>>
    /\ tasks = [t \in 1..MaxTasks |-> NoTask]
    /\ ntasks = 0
    /\ r_sent = <<>>

\* The realtime-speech connection at rest, as the other components see it.
SpeechIdle == SpeechInit /\ voice_interface

\* The /ws connection has been accepted.
ChatInit ==
    /\ connected = TRUE
    /\ rag_ready \in BOOLEAN
    /\ edge_tts_instance \in BOOLEAN
    /\ active_connections = {SessionId}
    /\ user_sessions = [s \in {SessionId} |-> 0]
    /\ session_states =
          [s \in {SessionId} |->
              [current_request_id |-> NoRequestId, is_interrupted |-> FALSE]]
    /\ reg_writes = <<>>
    /\ hpc = "recv"
    /\ nreq = 0
    /\ req = NoRequest
    /\ retrieved = "pending"
    /\ gen = [script |-> <<>>, pos |-> 0]
    /\ gen_exit = "none"
    /\ sources = <<>>
    /\ response_text = <<>>
    /\ sentence_buffer = <<>>
    /\ tts_queue = <<>>
    /\ enqueued = <<>>
    /\ worker = [r \in Requests |-> NoWorker]
    /\ tts_done = [r \in Requests |-> FALSE]
    /\ sent = <<>>
    /\ h_sending = FALSE
    /\ w_sending = {}
    /\ data = "None"

\* The /ws connection at rest, as the components run on their own see it.
ChatIdle == ChatInit /\ rag_ready /\ edge_tts_instance

Init == ChatInit /\ SegIdle /\ MergeIdle /\ SpeechIdle

\* ------------------------------------------------------ connection handler
config == << rag_ready, edge_tts_instance >>
channel == << h_sending, w_sending >>
tables == << active_connections, user_sessions, session_states >>
locals == << retrieved, gen, gen_exit, sources, response_text, sentence_buffer,
             tts_queue, enqueued >>

\* Cleanup without the pop of the interruption registry.
Cleanup_KeepsRegistry ==
    /\ active_connections' = active_connections \ {SessionId}
    /\ user_sessions' = [s \in DOMAIN user_sessions \ {SessionId} |->
                            user_sessions[s]]
    /\ session_states' = session_states
    /\ hpc' = "closed"

\* The finally clause of websocket_endpoint.
Cleanup ==
    /\ active_connections' = active_connections \ {SessionId}
    /\ user_sessions' = [s \in DOMAIN user_sessions \ {SessionId} |->
                            user_sessions[s]]
    /\ session_states' = [s \in DOMAIN session_states \ {SessionId} |->
                            session_states[s]]
    /\ hpc' = "closed"

\* A websocket.send_text in stream_response outside the generation loop:
\* the event is written and the handler goes on to next_pc, or the send
\* raises on a closed transport; the except clause's own send of an error
\* event then raises too and the exception ends the connection handler.
SendOrFail(event, next_pc) ==
    IF connected
    THEN /\ sent' = Append(sent, event)
         /\ hpc' = next_pc
         /\ UNCHANGED tables
    ELSE /\ sent' = sent
         /\ Cleanup

\* RecvSendMessage in a handler that does not await stream_response to
\* its end: the next message is read while the request waits for its
\* worker.
RecvSendMessage_NotAwaited ==
    /\ hpc \in {"recv", "wait"}
    /\ connected
    /\ nreq < MaxRequests
    /\ \E given \in ClientRequestIds \cup {NoRequestId} :
          LET request_id == IF given = NoRequestId THEN Uuid4(nreq + 1)
                            ELSE given
              steps == SetCurrentRequest(session_states[SessionId], request_id)
          IN  /\ reg_writes' = steps
              /\ session_states' =
                    [session_states EXCEPT ![SessionId] = steps[Len(steps)]]
              /\ req' = [request_id |-> request_id, session_id |-> SessionId,
                         auto_tts |-> TRUE]
              /\ sent' = <<ResponseStart(request_id)>>
    /\ user_sessions' = [user_sessions EXCEPT ![SessionId] = @ + 1]
    /\ nreq' = nreq + 1
    /\ hpc' = "retrieve"
    /\ retrieved' = "pending"
    /\ gen' = [script |-> <<>>, pos |-> 0]
    /\ gen_exit' = "none"
    /\ sources' = <<>>
    /\ response_text' = <<>>
    /\ sentence_buffer' = <<>>
    /\ tts_queue' = <<>>
    /\ enqueued' = <<>>
    /\ data' = "send_message"
    /\ UNCHANGED << connected, config, elsewhere, channel, active_connections,
                    worker, tts_done >>

\* receive_text returns a send_message: the registry is updated, the
\* question is appended to the history and stream_response sends
\* response_start.
RecvSendMessage ==
    /\ hpc = "recv"
    /\ connected
    /\ nreq < MaxRequests
    /\ \E given \in ClientRequestIds \cup {NoRequestId} :
          LET request_id == IF given = NoRequestId THEN Uuid4(nreq + 1)
                            ELSE given
              steps == SetCurrentRequest(session_states[SessionId], request_id)
          IN  /\ reg_writes' = steps
              /\ session_states' =
                    [session_states EXCEPT ![SessionId] = steps[Len(steps)]]
              /\ req' = [request_id |-> request_id, session_id |-> SessionId,
                         auto_tts |-> TRUE]
              /\ sent' = <<ResponseStart(request_id)>>
    /\ user_sessions' = [user_sessions EXCEPT ![SessionId] = @ + 1]
    /\ nreq' = nreq + 1
    /\ hpc' = "retrieve"
    /\ retrieved' = "pending"
    /\ gen' = [script |-> <<>>, pos |-> 0]
    /\ gen_exit' = "none"
    /\ sources' = <<>>
    /\ response_text' = <<>>
    /\ sentence_buffer' = <<>>
    /\ tts_queue' = <<>>
    /\ enqueued' = <<>>
    /\ data' = "send_message"
    /\ UNCHANGED << connected, config, elsewhere, channel, active_connections,
                    worker, tts_done >>

\* stream_response from the RAG check to the creation of the worker task.
Retrieve ==
    /\ hpc = "retrieve"
    /\ UNCHANGED << connected, config, data, elsewhere, channel, reg_writes, nreq, req, gen_exit,
                    response_text, sentence_buffer, tts_queue, enqueued,
                    tts_done >>
    /\ \/ \* rag_chain or retriever missing: an error event, and return
          /\ ~rag_ready
          /\ SendOrFail(ErrorEvent, "recv")
          /\ UNCHANGED << retrieved, gen, sources, worker >>
       \/ \* retriever.invoke raises: the outer except sends an error event
          /\ rag_ready
          /\ retrieved' = "raised"
          /\ SendOrFail(ErrorEvent, "recv")
          /\ UNCHANGED << gen, sources, worker >>
       \/ \* retriever.invoke returns
          /\ rag_ready
          /\ \E docs \in DocResults :
                IF docs = <<>>
                THEN /\ retrieved' = "empty"
                     /\ SendOrFail(NoResultEnd(req.request_id), "recv")
                     /\ UNCHANGED << gen, sources, worker >>
                ELSE /\ retrieved' = "found"
                     /\ sources' = Sources(docs)
                     /\ worker' = [worker EXCEPT ![nreq] =
                           [pc |-> "created", sentence |-> <<>>,
                            request_id |-> req.request_id,
                            session_id |-> req.session_id,
                            auto_tts |-> req.auto_tts]]
                     /\ \E script \in Scripts :
                           gen' = [script |-> script, pos |-> 0]
                     /\ hpc' = "gen"
                     /\ UNCHANGED << sent, tables >>

\* Leaving the generation loop: the finally clause fills the queue and the
\* handler goes on to wait for tts_done.
Drain(exit) ==
    LET items == DrainItems(req.auto_tts, sentence_buffer)
    IN  /\ tts_queue' = tts_queue \o items
        /\ enqueued' = enqueued \o items
        /\ gen_exit' = exit
        /\ hpc' = "wait"

\* NextChunk reading the stream from its end.
NextChunk_FromEnd(g) == g.script[Len(g.script) - g.pos]

\* The fragment the stream yields next.
NextChunk(g) == g.script[g.pos + 1]

\* The stream has yielded a fragment that is to be sent, and the
\* send_text of its response_chunk suspends stream_response: the event
\* loop runs the other tasks until the send returns.
ChunkSendSuspends ==
    /\ hpc = "gen"
    /\ gen.pos < Len(gen.script)
    /\ ~h_sending
    /\ connected
    /\ NextChunk(gen) # <<>>
    /\ ~(req.session_id # None
          /\ ShouldInterruptTts(session_states, req.session_id))
    /\ h_sending' = TRUE
    /\ UNCHANGED << connected, config, data, elsewhere, w_sending, tables, reg_writes,
                    hpc, nreq, req, locals, worker, tts_done, sent >>

\* One turn of the generation loop on the next fragment of the stream; a
\* turn suspended in its send goes on from there.
GenFragment ==
    /\ hpc = "gen"
    /\ gen.pos < Len(gen.script)
    /\ h_sending' = FALSE
    /\ UNCHANGED << connected, config, data, elsewhere, w_sending, tables, reg_writes,
                    nreq, req, retrieved, sources, worker, tts_done >>
    /\ LET chunk == NextChunk(gen)
       IN  /\ gen' = [gen EXCEPT !.pos = @ + 1]
           /\ IF /\ ~h_sending
                 /\ req.session_id # None
                 /\ ShouldInterruptTts(session_states, req.session_id)
              THEN \* interrupted: break
                   /\ Drain("interrupted")
                   /\ UNCHANGED << response_text, sentence_buffer, sent >>
              ELSE IF chunk = <<>>
              THEN \* empty fragment: continue
                   UNCHANGED << response_text, sentence_buffer, tts_queue,
                                enqueued, gen_exit, hpc, sent >>
              ELSE IF ~connected
              THEN \* the send raises: caught as a generation error
                   /\ response_text' = response_text \o chunk
                   /\ Drain("error")
                   /\ UNCHANGED << sentence_buffer, sent >>
              ELSE /\ response_text' = response_text \o chunk
                   /\ sent' = Append(sent, ResponseChunk(req.request_id, chunk))
                   /\ IF req.auto_tts
                      THEN LET x == ExtractSentences[sentence_buffer \o chunk, <<>>]
                           IN  /\ sentence_buffer' = x.buffer
                               /\ tts_queue' = tts_queue \o x.sentences
                               /\ enqueued' = enqueued \o x.sentences
                      ELSE UNCHANGED << sentence_buffer, tts_queue, enqueued >>
                   /\ UNCHANGED << gen_exit, hpc >>

\* The stream is exhausted.
GenExhausted ==
    /\ hpc = "gen"
    /\ gen.pos = Len(gen.script)
    /\ Drain("exhausted")
    /\ UNCHANGED << connected, config, data, elsewhere, channel, tables, reg_writes, nreq, req,
                    retrieved, gen, sources, response_text, sentence_buffer,
                    worker, tts_done, sent >>

\* GenError with one retry: the first exception restarts the stream.
GenError_Retries ==
    /\ hpc = "gen"
    /\ ~h_sending
    /\ IF gen_exit = "none"
       THEN /\ gen' = [gen EXCEPT !.pos = 0]
            /\ gen_exit' = "error"
            /\ UNCHANGED << hpc, tts_queue, enqueued >>
       ELSE Drain("error") /\ UNCHANGED gen
    /\ UNCHANGED << connected, config, data, elsewhere, channel, tables, reg_writes, nreq,
                    req, retrieved, sources, response_text, sentence_buffer,
                    worker, tts_done, sent >>

\* rag_chain.stream raises instead of yielding the next fragment.
GenError ==
    /\ hpc = "gen"
    /\ ~h_sending
    /\ Drain("error")
    /\ UNCHANGED << connected, config, data, elsewhere, channel, tables, reg_writes, nreq, req,
                    retrieved, gen, sources, response_text, sentence_buffer,
                    worker, tts_done, sent >>

\* Finish with the text not yet cut into a sentence sent as the full text.
Finish_BufferAsText ==
    SendOrFail(ResponseEnd(req.request_id, sentence_buffer, sources,
                           IsInterruptedJson(session_states, req.session_id)),
               "recv")

\* The terminal summary, built after the wait for tts_done.
Finish ==
    SendOrFail(ResponseEnd(req.request_id, response_text, sources,
                           IsInterruptedJson(session_states, req.session_id)),
               "recv")

\* tts_done is set: wait_for returns.
WaitDone ==
    /\ hpc = "wait"
    /\ tts_done[nreq]
    /\ Finish
    /\ UNCHANGED << connected, config, data, elsewhere, channel, reg_writes, nreq, req, locals, worker,
                    tts_done >>

\* Cancel with the cancel() call left out: the task is not touched.
Cancel_Noop(w) == w

\* tts_task.cancel(): a task that has not finished gets CancelledError
\* thrown at the await it is suspended in when it next runs.
Cancel(w) == IF w.pc \in {"none", "done"} THEN w
             ELSE [w EXCEPT !.pc = "cancelling", !.sentence = <<>>]

\* WaitTimeout with tts_done.wait() awaited without a timeout: the step
\* never happens.
WaitTimeout_NoTimer ==
    /\ FALSE
    /\ UNCHANGED vars

\* WaitTimeout without the cancel() call: the terminal summary is sent
\* and the worker is left in its synthesis call.
WaitTimeout_NoCancel ==
    /\ hpc = "wait"
    /\ ~tts_done[nreq]
    /\ worker[nreq].pc = "synth"
    /\ Finish
    /\ UNCHANGED << connected, config, data, elsewhere, channel, reg_writes, nreq, req, locals,
                    worker, tts_done >>

\* 60 s pass without tts_done: the worker, suspended in a synthesis call,
\* is cancelled and the terminal summary is sent all the same.
WaitTimeout ==
    /\ hpc = "wait"
    /\ ~tts_done[nreq]
    /\ worker[nreq].pc = "synth"
    /\ worker' = [worker EXCEPT ![nreq] = Cancel(@)]
    /\ Finish
    /\ UNCHANGED << connected, config, data, elsewhere, channel, reg_writes, nreq, req, locals,
                    tts_done >>

\* receive_text returns a text that json.loads rejects (or an object
\* without a "type"): the exception leaves the receive loop, the outer
\* except Exception logs it and the finally clause runs.  The endpoint
\* function returns, which closes the websocket.
RecvMalformed ==
    /\ hpc = "recv"
    /\ connected
    /\ data' = "not json"
    /\ Cleanup
    /\ connected' = FALSE
    /\ UNCHANGED << config, elsewhere, channel, reg_writes, nreq, req, locals,
                    worker, tts_done, sent >>

\* What transcribe_audio_local returns: a text ("你好", or one of its own
\* messages, which are texts like any other) or a blank one.
VoiceTexts == { <<20320, 22909>>, <<32>> }

Transcription(text) == Event("transcription", NoRequestId, text, <<>>, "absent")

\* RecvSendAudio giving the session id to stream_response, as the
\* send_message branch does.
RecvSendAudio_WithSession ==
    /\ hpc = "recv"
    /\ connected
    /\ data' = "send_audio"
    /\ reg_writes' = <<>>
    /\ IF ~voice_interface
       THEN /\ sent' = <<ErrorEvent>>
            /\ UNCHANGED << hpc, nreq, req, locals, user_sessions >>
       ELSE \E transcribed_text \in VoiceTexts :
               IF Strip(transcribed_text) = <<>>
               THEN /\ sent' = <<Transcription(transcribed_text)>>
                    /\ UNCHANGED << hpc, nreq, req, locals, user_sessions >>
               ELSE /\ nreq < MaxRequests
                    /\ sent' = << Transcription(transcribed_text),
                                  ResponseStart(NoRequestId) >>
                    /\ user_sessions' =
                          [user_sessions EXCEPT ![SessionId] = @ + 1]
                    /\ req' = [request_id |-> NoRequestId,
                               session_id |-> SessionId, auto_tts |-> TRUE]
                    /\ nreq' = nreq + 1
                    /\ hpc' = "retrieve"
                    /\ retrieved' = "pending"
                    /\ gen' = [script |-> <<>>, pos |-> 0]
                    /\ gen_exit' = "none"
                    /\ sources' = <<>>
                    /\ response_text' = <<>>
                    /\ sentence_buffer' = <<>>
                    /\ tts_queue' = <<>>
                    /\ enqueued' = <<>>
    /\ UNCHANGED << connected, config, elsewhere, channel, active_connections,
                    session_states, worker, tts_done >>

\* receive_text returns a send_audio: an error event when the voice system
\* is not initialised; else the audio is transcribed and the text sent as
\* a transcription event, and a text that is not blank is appended to the
\* history and given to stream_response without request id and session
\* id, which sends response_start.  The registry is not touched.
RecvSendAudio ==
    /\ hpc = "recv"
    /\ connected
    /\ data' = "send_audio"
    /\ reg_writes' = <<>>
    /\ IF ~voice_interface
       THEN /\ sent' = <<ErrorEvent>>
            /\ UNCHANGED << hpc, nreq, req, locals, user_sessions >>
       ELSE \E transcribed_text \in VoiceTexts :
               IF Strip(transcribed_text) = <<>>
               THEN /\ sent' = <<Transcription(transcribed_text)>>
                    /\ UNCHANGED << hpc, nreq, req, locals, user_sessions >>
               ELSE /\ nreq < MaxRequests
                    /\ sent' = << Transcription(transcribed_text),
                                  ResponseStart(NoRequestId) >>
                    /\ user_sessions' =
                          [user_sessions EXCEPT ![SessionId] = @ + 1]
                    /\ req' = [request_id |-> NoRequestId,
                               session_id |-> None, auto_tts |-> TRUE]
                    /\ nreq' = nreq + 1
                    /\ hpc' = "retrieve"
                    /\ retrieved' = "pending"
                    /\ gen' = [script |-> <<>>, pos |-> 0]
                    /\ gen_exit' = "none"
                    /\ sources' = <<>>
                    /\ response_text' = <<>>
                    /\ sentence_buffer' = <<>>
                    /\ tts_queue' = <<>>
                    /\ enqueued' = <<>>
    /\ UNCHANGED << connected, config, elsewhere, channel, active_connections,
                    session_states, worker, tts_done >>

\* receive_text raises WebSocketDisconnect.
RecvDisconnect ==
    /\ hpc = "recv"
    /\ ~connected
    /\ Cleanup
    /\ UNCHANGED << connected, config, data, elsewhere, channel, reg_writes, nreq, req, locals, worker,
                    tts_done, sent >>

\* The client closes the transport.
Disconnect ==
    /\ connected
    /\ connected' = FALSE
    /\ UNCHANGED << config, data, elsewhere, channel, tables, reg_writes, hpc, nreq, req, locals,
                    worker, tts_done, sent >>

\* -------------------------------------------------------- synthesis worker
\* The finally clause of tts_consumer: the completion event is set and the
\* task ends.
WorkerExit(r) ==
    /\ worker' = [worker EXCEPT ![r] = DoneWorker]
    /\ tts_done' = [tts_done EXCEPT ![r] = TRUE]

\* The top of the worker's loop: stop when interrupted, else wait on the
\* queue.
LoopTop(r) ==
    IF ShouldInterruptTts(session_states, worker[r].session_id)
    THEN WorkerExit(r)
    ELSE /\ worker' = [worker EXCEPT ![r].pc = "poll", ![r].sentence = <<>>]
         /\ UNCHANGED tts_done

\* The task's first run: audio disabled, or the loop is entered.
WStart(r) ==
    /\ worker[r].pc = "created"
    /\ IF ~worker[r].auto_tts \/ ~edge_tts_instance
       THEN WorkerExit(r)
       ELSE LoopTop(r)
    /\ UNCHANGED << connected, config, data, elsewhere, channel, tables, reg_writes, hpc, nreq, req,
                    locals, sent >>

\* wait_for(tts_queue.get(), 0.5) ends: with the next item, or with
\* TimeoutError on an empty queue.
WPoll(r) ==
    /\ worker[r].pc = "poll"
    /\ r = nreq
    /\ UNCHANGED << connected, config, data, elsewhere, channel, tables, reg_writes, hpc, nreq, req,
                    retrieved, gen, gen_exit, sources, response_text, sentence_buffer,
                    enqueued, sent >>
    /\ IF tts_queue = <<>>
       THEN /\ LoopTop(r)
            /\ UNCHANGED tts_queue
       ELSE LET got == QueueGet(tts_queue)
            IN  /\ tts_queue' = got.rest
                /\ IF got.item = Sentinel
                   THEN WorkerExit(r)
                   ELSE IF ShouldInterruptTts(session_states,
                                              worker[r].session_id)
                   THEN WorkerExit(r)
                   ELSE /\ worker' = [worker EXCEPT ![r].pc = "synth",
                                                    ![r].sentence = got.item]
                        /\ UNCHANGED tts_done

\* synthesize_sentence_async has returned audio, the session is not
\* interrupted, and the send_text of the audio_chunk suspends the worker.
AudioSendSuspends(r) ==
    /\ worker[r].pc = "synth"
    /\ r \notin w_sending
    /\ connected
    /\ ~ShouldInterruptTts(session_states, worker[r].session_id)
    /\ w_sending' = w_sending \cup {r}
    /\ UNCHANGED << connected, config, data, elsewhere, h_sending, tables, reg_writes,
                    hpc, nreq, req, locals, worker, tts_done, sent >>

\* WSynth with the inner try left out: a synthesis that raises ends the
\* worker through the outer except and the finally clause.
WSynth_FailureExits(r) ==
    /\ worker[r].pc = "synth"
    /\ \E audio \in BOOLEAN :
          /\ IF \/ r \in w_sending /\ connected
                \/ /\ r \notin w_sending
                   /\ audio /\ connected
                   /\ ~ShouldInterruptTts(session_states, worker[r].session_id)
             THEN sent' = Append(sent, AudioChunk(worker[r].request_id,
                                                  worker[r].sentence))
             ELSE sent' = sent
          /\ IF audio \/ r \in w_sending THEN LoopTop(r) ELSE WorkerExit(r)
    /\ w_sending' = w_sending \ {r}
    /\ UNCHANGED << connected, config, data, elsewhere, h_sending, tables, reg_writes,
                    hpc, nreq, req, locals >>

\* synthesize_sentence_async ends: with audio, which is sent unless the
\* session is interrupted (a failed send is logged), or with an exception,
\* which is logged.  A worker suspended in its send goes on from there.
\* Either way the loop goes on.
WSynth(r) ==
    /\ worker[r].pc = "synth"
    /\ \E audio \in BOOLEAN :
          IF \/ r \in w_sending /\ connected
             \/ /\ r \notin w_sending
                /\ audio /\ connected
                /\ ~ShouldInterruptTts(session_states, worker[r].session_id)
          THEN sent' = Append(sent, AudioChunk(worker[r].request_id,
                                               worker[r].sentence))
          ELSE sent' = sent
    /\ LoopTop(r)
    /\ w_sending' = w_sending \ {r}
    /\ UNCHANGED << connected, config, data, elsewhere, h_sending, tables, reg_writes,
                    hpc, nreq, req, locals >>

\* WCancelled without the finally clause: the task ends, the event stays
\* unset.
WCancelled_NoFinally(r) ==
    /\ worker[r].pc = "cancelling"
    /\ worker' = [worker EXCEPT ![r] = DoneWorker]
    /\ w_sending' = w_sending \ {r}
    /\ UNCHANGED << connected, config, data, elsewhere, h_sending, tables, reg_writes,
                    hpc, nreq, req, locals, sent, tts_done >>

\* CancelledError is raised in the worker at the await it was suspended in.
WCancelled(r) ==
    /\ worker[r].pc = "cancelling"
    /\ WorkerExit(r)
    /\ w_sending' = w_sending \ {r}
    /\ UNCHANGED << connected, config, data, elsewhere, h_sending, tables, reg_writes,
                    hpc, nreq, req, locals, sent >>

\* ------------------------------------------------------------ specification
Handler ==
    \/ RecvSendMessage
    \/ Retrieve
    \/ ChunkSendSuspends
    \/ GenFragment
    \/ GenExhausted
    \/ GenError
    \/ WaitDone
    \/ WaitTimeout
    \/ RecvMalformed
    \/ RecvDisconnect

Worker(r) ==
    \/ WStart(r)
    \/ WPoll(r)
    \/ AudioSendSuspends(r)
    \/ WSynth(r)
    \/ WCancelled(r)

Next ==
    \/ Handler
    \/ \E r \in Requests : Worker(r)
    \/ Disconnect

Spec == Init /\ [][Next]_vars

\* The steps stream_response and the handler take on their own, once a
\* message has been read (the 60 s timer of wait_for among them).
HandlerProgress ==
    \/ Retrieve
    \/ GenFragment
    \/ GenExhausted
    \/ GenError
    \/ WaitDone
    \/ WaitTimeout
    \/ RecvDisconnect

\* The steps a worker takes on its own: all but the return of a synthesis
\* call.  At most one of them is enabled at a time.
WorkerProgress(r) ==
    \/ WStart(r)
    \/ WPoll(r)
    \/ WCancelled(r)

\* The event loop runs every task that can run.  Nothing makes a client
\* send, and nothing makes a synthesis call return.
LiveSpec ==
    /\ Spec
    /\ WF_vars(HandlerProgress)
    /\ \A r \in Requests : WF_vars(WorkerProgress(r))

\* The /ws connection of a client that sends send_message and send_audio
\* messages, with or without an initialised voice system.
VoiceInit == ChatInit /\ SegIdle /\ MergeIdle /\ SpeechInit

VoiceNext ==
    \/ Handler
    \/ RecvSendAudio
    \/ \E r \in Requests : Worker(r)
    \/ Disconnect

VoiceSpec == VoiceInit /\ [][VoiceNext]_vars

\* ------------------------------------------------ the segmenter on its own
\* State of the /ws connection; the components run on their own leave it.
chat == << connected, config, tables, reg_writes, hpc, nreq, req, locals,
           worker, tts_done, sent, channel, data >>

\* Any text of the alphabet, up to the bound, before it is segmented.
SegInit ==
    /\ ChatIdle
    /\ MergeIdle
    /\ SpeechIdle
    /\ seg_pc = "input"
    /\ seg_buffer \in Texts(SegAlphabet, MaxBufferLen)
    /\ seg_result = [sentences |-> <<>>, buffer |-> <<>>]
    /\ seg_split = <<>>
    /\ seg_stream = NoStream

\* The extraction loop of stream_response run on the text.
SegExtract ==
    /\ seg_pc = "input"
    /\ seg_result' = ExtractSentences[seg_buffer, <<>>]
    /\ seg_pc' = "extracted"
    /\ UNCHANGED << chat, merging, speech, seg_buffer, seg_split, seg_stream >>

\* split_into_sentences run on the text.
SegSplit ==
    /\ seg_pc = "input"
    /\ seg_split' = split_into_sentences(seg_buffer)
    /\ seg_pc' = "split"
    /\ UNCHANGED << chat, merging, speech, seg_buffer, seg_result, seg_stream >>

\* SegFragment with sentence_buffer set to the fragment, not extended by
\* it: what was left of the fragment before is lost.
SegFragment_BufferNotCarried ==
    /\ seg_pc \in {"input", "streaming"}
    /\ seg_stream.pos < Len(seg_buffer)
    /\ \E k \in 1..(Len(seg_buffer) - seg_stream.pos) :
          LET chunk == SubSeq(seg_buffer, seg_stream.pos + 1,
                              seg_stream.pos + k)
              x == ExtractSentences[chunk, <<>>]
          IN  seg_stream' = [pos |-> seg_stream.pos + k,
                             sentence_buffer |-> x.buffer,
                             enqueued |-> seg_stream.enqueued \o x.sentences,
                             fragments |-> seg_stream.fragments + 1]
    /\ seg_pc' = "streaming"
    /\ UNCHANGED << chat, merging, speech, seg_buffer, seg_result, seg_split >>

\* One turn of the generation loop with auto TTS on, no interruption and no
\* error: the stream yields the next fragment of the text, of any length
\* from one character on, which is appended to sentence_buffer; the
\* extraction loop puts the sentences it finds on the queue.
SegFragment ==
    /\ seg_pc \in {"input", "streaming"}
    /\ seg_stream.pos < Len(seg_buffer)
    /\ \E k \in 1..(Len(seg_buffer) - seg_stream.pos) :
          LET chunk == SubSeq(seg_buffer, seg_stream.pos + 1,
                              seg_stream.pos + k)
              x == ExtractSentences[seg_stream.sentence_buffer \o chunk, <<>>]
          IN  seg_stream' = [pos |-> seg_stream.pos + k,
                             sentence_buffer |-> x.buffer,
                             enqueued |-> seg_stream.enqueued \o x.sentences,
                             fragments |-> seg_stream.fragments + 1]
    /\ seg_pc' = "streaming"
    /\ UNCHANGED << chat, merging, speech, seg_buffer, seg_result, seg_split >>

\* The stream is exhausted: the finally clause of the generation loop puts
\* the remainder and the sentinel.
SegDrain ==
    /\ seg_pc \in {"input", "streaming"}
    /\ seg_stream.pos = Len(seg_buffer)
    /\ seg_stream' = [seg_stream EXCEPT !.enqueued =
                         @ \o DrainItems(TRUE, seg_stream.sentence_buffer)]
    /\ seg_pc' = "streamed"
    /\ UNCHANGED << chat, merging, speech, seg_buffer, seg_result, seg_split >>

SegNext == SegExtract \/ SegSplit \/ SegFragment \/ SegDrain

SegSpec == SegInit /\ [][SegNext]_vars

\* ------------------------------------------------- merge_text on its own
\* Any three transcripts, before merge_text is called on them.
MergeInit ==
    /\ ChatIdle
    /\ SegIdle
    /\ SpeechIdle
    /\ merge_pc = "input"
    /\ merge_args \in [full_text : MergeTexts, last_text : MergeTexts,
                        new_text : MergeTexts]
    /\ merge_result = << <<>>, <<>> >>

\* merge_text(full_text, last_text, new_text) returns.
MergeCall ==
    /\ merge_pc = "input"
    /\ merge_result' = merge_text(merge_args.full_text, merge_args.last_text,
                                  merge_args.new_text)
    /\ merge_pc' = "merged"
    /\ UNCHANGED << chat, segmenter, speech, merge_args >>

MergeNext == MergeCall

MergeSpec == MergeInit /\ [][MergeNext]_vars

\* ------------------------------------------- realtime speech recognition
\* Samples of _model_chunk_stride, counted in half chunks: audio frames
\* carry one or two of them.
ChunkStride == 2
FrameSizes == {1, 2}

\* Texts the decoder returns for a chunk: "你", "你好".
DecoderTexts == { <<20320>>, <<20320, 22909>> }

\* What one call of the model's generate does: it returns a text, possibly
\* the empty one, or it raises.
DecodeOutcomes ==
    {[raised |-> FALSE, text |-> t] : t \in DecoderTexts \cup {<<>>}}
    \cup {[raised |-> TRUE, text |-> <<>>]}

REvent(type, text, message) ==
    [type |-> type, text |-> text, message |-> message]

\* result_callback(text, is_final): the items it puts on result_queue.
result_callback(text, is_final) ==
    IF Strip(text) = <<>> THEN <<>>
    ELSE << [type |-> IF is_final THEN "final" ELSE "interim",
             text |-> Strip(text)] >>

\* IicRealtimeSTT.start_streaming on a new instance.
start_streaming ==
    [instance |-> TRUE, streaming_active |-> TRUE, cache |-> "fresh",
     audio_buffer |-> 0, callback |-> TRUE]

\* send_audio_frame whose except clause ends the streaming.
send_audio_frame_FailureStops(stt, size, out) ==
    IF ~stt.streaming_active
    THEN [stt |-> stt, results |-> <<>>, log |-> "none"]
    ELSE IF stt.audio_buffer + size < ChunkStride
    THEN [stt |-> [stt EXCEPT !.audio_buffer = @ + size], results |-> <<>>,
          log |-> "none"]
    ELSE IF out.raised
    THEN [stt |-> [stt EXCEPT !.audio_buffer = @ + size - ChunkStride,
                              !.streaming_active = FALSE],
          results |-> <<>>, log |-> "send_audio_frame failed"]
    ELSE [stt |-> [stt EXCEPT !.audio_buffer = @ + size - ChunkStride,
                              !.cache = "used"],
          results |-> result_callback(out.text, FALSE), log |-> "none"]

\* IicRealtimeSTT.send_audio_frame with a frame of the given size: the
\* instance it leaves and the results given to the callback.  A frame
\* completes at most one chunk.
send_audio_frame(stt, size, out) ==
    IF ~stt.streaming_active
    THEN [stt |-> stt, results |-> <<>>, log |-> "none"]
    ELSE IF stt.audio_buffer + size < ChunkStride
    THEN [stt |-> [stt EXCEPT !.audio_buffer = @ + size], results |-> <<>>,
          log |-> "none"]
    ELSE IF out.raised
    THEN [stt |-> [stt EXCEPT !.audio_buffer = @ + size - ChunkStride],
          results |-> <<>>, log |-> "send_audio_frame failed"]
    ELSE [stt |-> [stt EXCEPT !.audio_buffer = @ + size - ChunkStride,
                              !.cache = "used"],
          results |-> result_callback(out.text, FALSE), log |-> "none"]

\* force_final_and_reset without the finally clause: the cache is kept.
force_final_NoReset(stt, out) ==
    [stt |-> stt,
     text |-> IF stt.streaming_active /\ ~out.raised THEN Strip(out.text)
              ELSE <<>>,
     reset |-> FALSE,
     log |-> IF stt.streaming_active /\ out.raised
             THEN "force_final_and_reset failed" ELSE "none"]

\* force_final_and_reset with the reset at the end of the try block, not
\* in a finally clause: a decoder that raises keeps its cache.
force_final_ResetInTry(stt, out) ==
    IF ~stt.streaming_active
    THEN [stt |-> stt, text |-> <<>>, reset |-> FALSE, log |-> "none"]
    ELSE IF out.raised
    THEN [stt |-> stt, text |-> <<>>, reset |-> FALSE,
          log |-> "force_final_and_reset failed"]
    ELSE [stt |-> [stt EXCEPT !.cache = "fresh"], text |-> Strip(out.text),
          reset |-> TRUE, log |-> "none"]

\* IicRealtimeSTT.force_final_and_reset: the instance it leaves, the text
\* it returns and whether the cache was reset.
force_final_and_reset(stt, out) ==
    IF ~stt.streaming_active
    THEN [stt |-> stt, text |-> <<>>, reset |-> FALSE, log |-> "none"]
    ELSE [stt |-> [stt EXCEPT !.cache = "fresh"],
          text |-> IF out.raised THEN <<>> ELSE Strip(out.text),
          reset |-> TRUE,
          log |-> IF out.raised THEN "force_final_and_reset failed"
                  ELSE "none"]

\* stop_streaming with the cleanup at the end of the try block, not in a
\* finally clause: a decoder that raises on the rest of the buffer stays
\* as it was.
stop_streaming_CleanupInTry(stt, out) ==
    LET decoding == stt.streaming_active /\ stt.audio_buffer > 0
        final_text == IF decoding /\ ~out.raised THEN Strip(out.text)
                      ELSE <<>>
    IN  [stt |-> IF decoding /\ out.raised THEN stt
                 ELSE [stt EXCEPT !.streaming_active = FALSE,
                                  !.cache = "None", !.audio_buffer = 0,
                                  !.callback = FALSE],
         text |-> final_text,
         results |-> IF final_text # <<>>
                     THEN result_callback(final_text, TRUE) ELSE <<>>,
         log |-> IF decoding /\ out.raised THEN "stop_streaming failed"
                 ELSE "none"]

\* IicRealtimeSTT.stop_streaming: the instance it leaves, the text it
\* returns, the results given to the callback and the failure it logs.
stop_streaming(stt, out) ==
    LET decoding == stt.streaming_active /\ stt.audio_buffer > 0
        final_text == IF decoding /\ ~out.raised THEN Strip(out.text)
                      ELSE <<>>
    IN  [stt |-> [stt EXCEPT !.streaming_active = FALSE, !.cache = "None",
                             !.audio_buffer = 0, !.callback = FALSE],
         text |-> final_text,
         results |-> IF final_text # <<>>
                     THEN result_callback(final_text, TRUE) ELSE <<>>,
         log |-> IF decoding /\ out.raised THEN "stop_streaming failed"
                 ELSE "none"]

\* A received message is counted.
Received ==
    /\ rpc = "recv"
    /\ r_connected
    /\ nmsg < MaxMessages
    /\ nmsg' = nmsg + 1

\* A start message: a new decoder and state dict, a status event and a new
\* process_results task; or an error event when speech recognition is not
\* initialised.
RStart ==
    /\ Received
    /\ IF ~voice_interface
       THEN /\ r_sent' = Append(r_sent, REvent("error", <<>>, "not initialised"))
            /\ stt_op' = "none"
            /\ stt_log' = "none"
            /\ UNCHANGED << stt_instance, r_state, streaming_started, tasks,
                            ntasks >>
       ELSE /\ ntasks < MaxTasks
            /\ stt_instance' = start_streaming
            /\ stt_op' = "start"
            /\ stt_log' = "none"
            /\ r_state' = FreshState
            /\ streaming_started' = TRUE
            /\ r_sent' = Append(r_sent, REvent("status", <<>>, "started"))
            /\ tasks' = [tasks EXCEPT ![ntasks + 1] = [pc |-> "created"]]
            /\ ntasks' = ntasks + 1
    /\ r_message' = "start"
    /\ UNCHANGED << chat, segmenter, merging, rpc, r_connected,
                    voice_interface, result_queue >>

\* An audio message: the frame is given to the decoder when a session is
\* streaming, and dropped otherwise.
RAudio ==
    /\ Received
    /\ IF streaming_started /\ stt_instance.instance
       THEN \E size \in FrameSizes, out \in DecodeOutcomes :
               LET r == send_audio_frame(stt_instance, size, out)
               IN  /\ stt_instance' = r.stt
                   /\ result_queue' = result_queue \o r.results
                   /\ stt_log' = r.log
       ELSE /\ stt_log' = "none"
            /\ UNCHANGED << stt_instance, result_queue >>
    /\ stt_op' = "none"
    /\ r_message' = "audio"
    /\ UNCHANGED << chat, segmenter, merging, rpc, r_connected,
                    voice_interface, streaming_started, r_state, tasks,
                    ntasks, r_sent >>

\* An audio message whose payload b64decode rejects: nothing is decoded
\* when no session is streaming; otherwise the exception leaves the
\* receive loop, the outer except Exception logs it and the finally clause
\* stops the decoder.  The endpoint function returns, which closes the
\* websocket.
RAudioUndecodable ==
    /\ Received
    /\ r_message' = "audio not base64"
    /\ IF streaming_started /\ stt_instance.instance
       THEN /\ rpc' = "closed"
            /\ r_connected' = FALSE
            /\ \E out \in DecodeOutcomes :
                  LET r == stop_streaming(stt_instance, out)
                  IN  /\ stt_instance' = r.stt
                      /\ stt_op' = "stop"
                      /\ stt_log' = r.log
                      /\ result_queue' = result_queue \o r.results
       ELSE /\ stt_op' = "none"
            /\ stt_log' = "none"
            /\ UNCHANGED << rpc, r_connected, stt_instance, result_queue >>
    /\ UNCHANGED << chat, segmenter, merging, voice_interface,
                    streaming_started, r_state, tasks, ntasks, r_sent >>

\* A message json.loads rejects: an error event, and the loop goes on.
RNotJson ==
    /\ Received
    /\ r_message' = "not json"
    /\ r_sent' = Append(r_sent, REvent("error", <<>>, "format"))
    /\ stt_op' = "none"
    /\ stt_log' = "none"
    /\ UNCHANGED << chat, segmenter, merging, rpc, r_connected,
                    voice_interface, stt_instance, streaming_started, r_state,
                    result_queue, tasks, ntasks >>

\* An end message: the decoder is stopped, the text of the audio left in
\* its buffer is sent as a final event, and a status event follows.
REnd ==
    /\ Received
    /\ IF streaming_started /\ stt_instance.instance
       THEN \E out \in DecodeOutcomes :
               LET r == stop_streaming(stt_instance, out)
               IN  /\ stt_instance' = r.stt
                   /\ stt_op' = "stop"
                   /\ stt_log' = r.log
                   /\ result_queue' = result_queue \o r.results
                   /\ streaming_started' = FALSE
                   /\ r_sent' = r_sent
                         \o (IF r.text # <<>>
                             THEN <<REvent("final", r.text, "")>> ELSE <<>>)
                         \o <<REvent("status", <<>>, "ended")>>
       ELSE /\ r_sent' = Append(r_sent, REvent("status", <<>>, "ended"))
            /\ stt_op' = "none"
            /\ stt_log' = "none"
            /\ UNCHANGED << stt_instance, result_queue, streaming_started >>
    /\ r_message' = "end"
    /\ UNCHANGED << chat, segmenter, merging, rpc, r_connected,
                    voice_interface, r_state, tasks, ntasks >>

\* The client closes the realtime-speech transport.
RDisconnect ==
    /\ r_connected
    /\ r_connected' = FALSE
    /\ stt_op' = "none"
    /\ stt_log' = "none"
    /\ UNCHANGED << chat, segmenter, merging, rpc, voice_interface, nmsg,
                    r_message, stt_instance, streaming_started, r_state, result_queue,
                    tasks, ntasks, r_sent >>

\* receive_text raises WebSocketDisconnect: the finally clause stops the
\* decoder, when there is one.
RRecvDisconnect ==
    /\ rpc = "recv"
    /\ ~r_connected
    /\ rpc' = "closed"
    /\ IF stt_instance.instance
       THEN \E out \in DecodeOutcomes :
               LET r == stop_streaming(stt_instance, out)
               IN  /\ stt_instance' = r.stt
                   /\ stt_op' = "stop"
                   /\ stt_log' = r.log
                   /\ result_queue' = result_queue \o r.results
       ELSE /\ stt_op' = "none"
            /\ stt_log' = "none"
            /\ UNCHANGED << stt_instance, result_queue >>
    /\ UNCHANGED << chat, segmenter, merging, r_connected, voice_interface,
                    nmsg, r_message, streaming_started, r_state, tasks, ntasks,
                    r_sent >>

\* SILENCE_TIMEOUT passes since last_recog_time.
QuietElapsed ==
    /\ r_state.last_recog_time = "recent"
    /\ r_state' = [r_state EXCEPT !.last_recog_time = "old"]
    /\ stt_op' = "none"
    /\ stt_log' = "none"
    /\ UNCHANGED << chat, segmenter, merging, rpc, r_connected,
                    voice_interface, nmsg, r_message, stt_instance,
                    streaming_started, result_queue, tasks, ntasks, r_sent >>

\* What process_results leaves alone in every step.
task_frame == << chat, segmenter, merging, rpc, r_connected, voice_interface,
                 nmsg, r_message, streaming_started, ntasks >>

\* A send_text of process_results raised: the error is logged and the task
\* stops or goes on, as the text of the exception has "websocket" in it or
\* not.
SendRaised(t) ==
    /\ \E stop \in BOOLEAN :
          tasks' = [tasks EXCEPT ![t].pc = IF stop THEN "done" ELSE "poll"]
    /\ r_sent' = r_sent

\* The task's first run, up to its wait on result_queue.
TStart(t) ==
    /\ tasks[t].pc = "created"
    /\ tasks' = [tasks EXCEPT ![t].pc = "poll"]
    /\ stt_op' = "none"
    /\ stt_log' = "none"
    /\ UNCHANGED << task_frame, stt_instance, r_state, result_queue, r_sent >>

\* wait_for(result_queue.get(), 0.5) returns a result: it is merged into
\* full_text, which is sent as an interim event.
TResult(t) ==
    /\ tasks[t].pc = "poll"
    /\ result_queue # <<>>
    /\ LET result == Head(result_queue)
           merged == merge_text(r_state.full_text, r_state.last_text,
                                result.text)
       IN  /\ result_queue' = Tail(result_queue)
           /\ r_state' = [full_text |-> merged[1], last_text |-> merged[2],
                          last_recog_time |-> "recent"]
           /\ IF r_connected
              THEN /\ r_sent' = Append(r_sent, REvent("interim", merged[1], ""))
                   /\ UNCHANGED tasks
              ELSE SendRaised(t)
    /\ stt_op' = "none"
    /\ stt_log' = "none"
    /\ UNCHANGED << task_frame, stt_instance >>

\* TTimeout without the test of the time since the last result: text in
\* full_text is finalized at the first timeout of the wait.
TTimeout_NoQuietCheck(t) ==
    /\ tasks[t].pc = "poll"
    /\ result_queue = <<>>
    /\ IF /\ streaming_started
          /\ r_state.full_text # <<>>
       THEN \E out \in DecodeOutcomes :
               LET f == IF stt_instance.instance
                        THEN force_final_and_reset(stt_instance, out)
                        ELSE [stt |-> stt_instance, text |-> <<>>,
                              reset |-> FALSE, log |-> "none"]
                   merged == IF f.text # <<>>
                             THEN merge_text(r_state.full_text,
                                             r_state.last_text, f.text)
                             ELSE << r_state.full_text, r_state.last_text >>
               IN  /\ Len(merged[1]) <= MaxTranscriptLen
                   /\ stt_instance' = f.stt
                   /\ stt_op' = IF f.reset THEN "force_final" ELSE "none"
                   /\ stt_log' = f.log
                   /\ r_state' = [r_state EXCEPT !.full_text = merged[1],
                                                 !.last_text = merged[2]]
                   /\ IF r_connected
                      THEN /\ r_sent' = Append(r_sent,
                                           REvent("final", merged[1], ""))
                           /\ tasks' = [tasks EXCEPT ![t].pc = "resetting"]
                      ELSE SendRaised(t)
       ELSE /\ tasks' = [tasks EXCEPT ![t].pc =
                            IF ~streaming_started THEN "done" ELSE "poll"]
            /\ stt_op' = "none"
            /\ stt_log' = "none"
            /\ UNCHANGED << stt_instance, r_state, r_sent >>
    /\ UNCHANGED << task_frame, result_queue >>

\* wait_for times out on an empty queue.  After SILENCE_TIMEOUT without a
\* result, with text in full_text, the decoder is forced to finalize, what
\* it returns is merged and full_text is sent as a final event; the task
\* resumes after the send to reset the state dict.  Otherwise the task
\* stops when streaming has ended, and polls again when it has not.
TTimeout(t) ==
    /\ tasks[t].pc = "poll"
    /\ result_queue = <<>>
    /\ IF /\ streaming_started
          /\ r_state.full_text # <<>>
          /\ r_state.last_recog_time = "old"
       THEN \E out \in DecodeOutcomes :
               LET f == IF stt_instance.instance
                        THEN force_final_and_reset(stt_instance, out)
                        ELSE [stt |-> stt_instance, text |-> <<>>,
                              reset |-> FALSE, log |-> "none"]
                   merged == IF f.text # <<>>
                             THEN merge_text(r_state.full_text,
                                             r_state.last_text, f.text)
                             ELSE << r_state.full_text, r_state.last_text >>
               IN  /\ Len(merged[1]) <= MaxTranscriptLen
                   /\ stt_instance' = f.stt
                   /\ stt_op' = IF f.reset THEN "force_final" ELSE "none"
                   /\ stt_log' = f.log
                   /\ r_state' = [r_state EXCEPT !.full_text = merged[1],
                                                 !.last_text = merged[2]]
                   /\ IF r_connected
                      THEN /\ r_sent' = Append(r_sent,
                                           REvent("final", merged[1], ""))
                           /\ tasks' = [tasks EXCEPT ![t].pc = "resetting"]
                      ELSE SendRaised(t)
       ELSE /\ tasks' = [tasks EXCEPT ![t].pc =
                            IF ~streaming_started THEN "done" ELSE "poll"]
            /\ stt_op' = "none"
            /\ stt_log' = "none"
            /\ UNCHANGED << stt_instance, r_state, r_sent >>
    /\ UNCHANGED << task_frame, result_queue >>

\* TReset leaving the state dict as it is.
TReset_KeepState(t) ==
    /\ tasks[t].pc = "resetting"
    /\ tasks' = [tasks EXCEPT ![t].pc =
                    IF ~streaming_started /\ result_queue = <<>>
                    THEN "done" ELSE "poll"]
    /\ stt_op' = "none"
    /\ stt_log' = "none"
    /\ UNCHANGED << task_frame, stt_instance, r_state, result_queue, r_sent >>

\* The send of the final event has returned: the state dict is reset, and
\* the task stops when streaming has ended and the queue is empty.
TReset(t) ==
    /\ tasks[t].pc = "resetting"
    /\ r_state' = FreshState
    /\ tasks' = [tasks EXCEPT ![t].pc =
                    IF ~streaming_started /\ result_queue = <<>>
                    THEN "done" ELSE "poll"]
    /\ stt_op' = "none"
    /\ stt_log' = "none"
    /\ UNCHANGED << task_frame, stt_instance, result_queue, r_sent >>

ProcessResults(t) ==
    \/ TStart(t)
    \/ TResult(t)
    \/ TTimeout(t)
    \/ TReset(t)

RecogInit == ChatIdle /\ SegIdle /\ MergeIdle /\ SpeechInit

RecogNext ==
    \/ RStart
    \/ RAudio
    \/ REnd
    \/ RAudioUndecodable
    \/ RNotJson
    \/ RDisconnect
    \/ RRecvDisconnect
    \/ QuietElapsed
    \/ \E t \in 1..MaxTasks : ProcessResults(t)

RecogSpec == RecogInit /\ [][RecogNext]_vars

\* The connection has read fewer messages than the fair runs follow.
Early == nmsg < MaxLiveMessages

RecogLiveNext ==
    \/ Early /\ RStart
    \/ Early /\ RAudio
    \/ Early /\ REnd
    \/ Early /\ RAudioUndecodable
    \/ Early /\ RNotJson
    \/ RDisconnect
    \/ RRecvDisconnect
    \/ QuietElapsed
    \/ \E t \in 1..MaxTasks : ProcessResults(t)

\* The event loop runs every process_results task that can run: a wait on
\* result_queue ends with a result or after 0.5 s.  Nothing makes a client
\* send.
RecogLiveSpec ==
    /\ RecogInit
    /\ [][RecogLiveNext]_vars
    /\ \A t \in 1..MaxTasks : WF_vars(ProcessResults(t))

\* ------------------------------------------------------------------ claims
\* The last send_message carried an id different from the stored non-empty
\* one: the registry update marked the session interrupted on its way.
Superseded == Len(reg_writes) = 3

\* The worker task of request r exists and has not finished.
Alive(r) == worker[r].pc \notin {"none", "done"}

\* stream_response of request r has returned or ended by an exception.
Ended(r) == r < nreq \/ (r = nreq /\ hpc \in {"recv", "closed"})

\* Types and contents of the events on the channel.
OfType(type) == SelectSeq(sent, LAMBDA e : e.type = type)
Contents(events) == [i \in 1..Len(events) |-> events[i].content]

\* a is b with some elements left out, the order kept.
RECURSIVE IsSubseq(_, _)
IsSubseq(a, b) ==
    IF a = <<>> THEN TRUE
    ELSE IF b = <<>> THEN FALSE
    ELSE IF Head(a) = Head(b) THEN IsSubseq(Tail(a), Tail(b))
    ELSE IsSubseq(a, Tail(b))

IsPrefix(a, b) == Len(a) <= Len(b) /\ a = SubSeq(b, 1, Len(a))

\* C1: once a send_message with a new request id has been handled while the
\* worker of an earlier request is still running, that worker's next step
\* finds should_interrupt_tts() true and ends with its completion event set.
C1_InterruptSeenAtNextPoll ==
    [][ \A r \in Requests :
          (r < nreq /\ Superseded /\ Alive(r) /\ worker'[r] # worker[r])
          => /\ ShouldInterruptTts(session_states, worker[r].session_id)
             /\ tts_done'[r] ]_vars

\* C2: a new request cuts off the audio synthesis of the request it
\* supersedes (the superseded request's worker, while it runs, sees the
\* session interrupted) and the flag never stops a generation loop.
C2_AudioCutTextKept ==
    /\ \A r \in Requests :
          (r < nreq /\ Superseded /\ Alive(r))
          => ShouldInterruptTts(session_states, worker[r].session_id)
    /\ gen_exit # "interrupted"

\* C3: handling a send_message leaves current_request_id equal to the new
\* id and is_interrupted false, in the session's one registry entry; when
\* the id differs from the stored non-empty id the entry is first marked
\* interrupted, then given the new id, then cleared.
C3_SetCurrentRequestOrder ==
    [][ nreq' = nreq + 1 =>
          LET old == session_states[SessionId]
              new == session_states'[SessionId]
              rid == req'.request_id
          IN  /\ DOMAIN session_states' = {SessionId}
              /\ new = [current_request_id |-> rid, is_interrupted |-> FALSE]
              /\ (old.current_request_id # NoRequestId
                    /\ old.current_request_id # rid)
                 => reg_writes' =
                       << [old EXCEPT !.is_interrupted = TRUE],
                          [current_request_id |-> rid, is_interrupted |-> TRUE],
                          [current_request_id |-> rid, is_interrupted |-> FALSE] >>
      ]_vars

\* A send_message with a new id has just been handled on a session that had
\* a current request.
C3_Witness ==
    /\ hpc = "retrieve"
    /\ nreq = 2
    /\ Superseded
    /\ session_states[SessionId].current_request_id = req.request_id
    /\ reg_writes[1].current_request_id # req.request_id

\* C4: every worker task that was created eventually sets its completion
\* event, whichever way it leaves (audio disabled, sentinel, interruption,
\* cancellation).
\* (A created task never becomes "none" again and the event is never
\* reset, so a worker that never set its event would falsify this from its
\* creation on.)
C4_WorkerSetsDone ==
    []<>(\A r \in Requests : worker[r].pc = "none" \/ tts_done[r])

\* A worker has set its event although the sentinel is still on the queue:
\* with audio enabled it was cancelled after the drain timeout.
C4_Witness ==
    /\ nreq >= 1
    /\ tts_done[nreq]
    /\ edge_tts_instance
    /\ hpc = "recv"
    /\ tts_queue # <<>>
    /\ tts_queue[Len(tts_queue)] = Sentinel

\* C5: when the 60 s wait for tts_done ends without the event, the handler
\* cancels the worker and still sends response_end (on an open transport);
\* a cancelled worker makes no further synthesis call and sends nothing:
\* its one remaining step ends the task.
C5_TimeoutCancelsThenEnds ==
    [][ /\ (hpc = "wait" /\ ~tts_done[nreq] /\ hpc' # "wait")
           => /\ worker'[nreq].pc = "cancelling"
              /\ connected =>
                    sent' = Append(sent,
                       ResponseEnd(req.request_id, response_text, sources,
                          IsInterruptedJson(session_states, req.session_id)))
        /\ \A r \in Requests :
              (worker[r].pc = "cancelling" /\ worker'[r] # worker[r])
              => worker'[r].pc = "done" /\ sent' = sent ]_vars

\* The drain timeout has expired: response_end is out, the worker is
\* cancelled and has not run yet.
C5_Witness ==
    /\ hpc = "recv"
    /\ nreq >= 1
    /\ worker[nreq].pc = "cancelling"
    /\ ~tts_done[nreq]
    /\ sent[Len(sent)].type = "response_end"

\* C6: a request in generation or draining has its one worker task, and
\* once stream_response has returned (or ended) for a request no worker
\* task of that request is left unfinished.
C6_NoWorkerPastReturn ==
    \A r \in Requests :
       /\ (r = nreq /\ hpc \in {"gen", "wait"}) => worker[r].pc # "none"
       /\ Ended(r) => ~Alive(r)

\* C7: when retrieval returns no document the request starts no worker,
\* enqueues nothing, sends no response_chunk and no audio_chunk, and sends
\* one response_end, with an empty sources list (none only when the
\* transport is closed).
C7_NoDocsNoStreaming ==
    retrieved = "empty" =>
       LET ends == OfType("response_end")
       IN  /\ worker[nreq].pc = "none"
           /\ enqueued = <<>>
           /\ OfType("response_chunk") = <<>>
           /\ OfType("audio_chunk") = <<>>
           /\ Len(ends) <= 1
           /\ connected => Len(ends) = 1
           /\ \A i \in 1..Len(ends) :
                 ends[i].sources = <<>> /\ ends[i].requestId = req.request_id

\* Retrieval found nothing and the summary is out.
C7_Witness ==
    /\ retrieved = "empty"
    /\ Len(OfType("response_end")) = 1
    /\ Len(sent) = 2

\* The non-empty fragments rag_chain.stream has yielded so far.
Produced == SelectSeq(SubSeq(gen.script, 1, gen.pos), LAMBDA c : c # <<>>)

\* C8: the first event of a request is its response_start; the
\* response_chunk events carry the non-empty fragments in the order the
\* stream yielded them (all of them while no send has failed), and none
\* comes after the request's response_end.
C8_ChunksInOrderBeforeEnd ==
    nreq >= 1 =>
       LET chunks == OfType("response_chunk")
       IN  /\ sent[1] = ResponseStart(req.request_id)
           /\ \A i \in 2..Len(sent) : sent[i].type # "response_start"
           /\ IsPrefix(Contents(chunks), Produced)
           /\ gen_exit \in {"none", "exhausted"} => Contents(chunks) = Produced
           /\ \A i \in 1..Len(chunks) : chunks[i].requestId = req.request_id
           /\ \A i, j \in 1..Len(sent) :
                 (sent[i].type = "response_end" /\ sent[j].type = "response_chunk")
                 => j < i

\* A three-fragment answer was relayed to its end.
C8_Witness ==
    /\ gen_exit = "exhausted"
    /\ Len(OfType("response_chunk")) = 3
    /\ sent[Len(sent)].type = "response_end"

\* The items the worker has taken from tts_queue so far.
Taken == SubSeq(enqueued, 1, Len(enqueued) - Len(tts_queue))

\* C9: the worker takes the items of tts_queue in the order they were put
\* (what is left on the queue is the tail of what was put), the sentence in
\* synthesis is the last one taken, and the audio_chunk events are, in
\* order, sentences taken so far: skipped ones are missing, none is out of
\* place.
C9_AudioInEnqueueOrder ==
    /\ Len(tts_queue) <= Len(enqueued)
    /\ tts_queue = SubSeq(enqueued, Len(enqueued) - Len(tts_queue) + 1,
                          Len(enqueued))
    /\ IsSubseq(Contents(OfType("audio_chunk")), Taken)
    /\ Sentinel \notin {Contents(OfType("audio_chunk"))[i] :
                           i \in 1..Len(OfType("audio_chunk"))}
    /\ \A r \in Requests :
          worker[r].pc = "synth"
          => r = nreq /\ worker[r].sentence = Taken[Len(Taken)]

\* Of the sentences "A?", "B;", "C" the second one's synthesis failed: the
\* audio of the first and the third went out.
C9_Witness ==
    /\ gen.script = ScriptMixed
    /\ Contents(OfType("audio_chunk")) = << <<65, 63>>, <<67>> >>

\* C10 as stated: from the fragments "你好，" "世界。" "今天天气不错",
\* generated to the end, the queue is given "你好，", "世界。" and
\* "今天天气不错", then the sentinel.
C10_GreetingAsStated ==
    (gen.script = ScriptGreeting /\ gen_exit = "exhausted")
    => enqueued = << ScriptGreeting[1], ScriptGreeting[2], ScriptGreeting[3],
                     Sentinel >>

\* C10 amended: the full-width comma ends no sentence, so from the same
\* fragments the queue is given "你好，世界。" during generation (once the
\* second fragment has been handled) and "今天天气不错" as the drained
\* remainder, then the sentinel.
C10_GreetingSentences ==
    gen.script = ScriptGreeting =>
       LET first == ScriptGreeting[1] \o ScriptGreeting[2]
       IN  /\ gen_exit = "none" =>
                 enqueued = IF gen.pos >= 2 THEN <<first>> ELSE <<>>
           /\ gen_exit = "exhausted" =>
                 enqueued = << first, ScriptGreeting[3], Sentinel >>

\* The greeting has been generated to its end and drained.
C10_Witness ==
    /\ gen.script = ScriptGreeting
    /\ gen_exit = "exhausted"
    /\ Len(enqueued) = 3

\* The text without its whitespace characters.
NoSpace(text) == SelectSeq(text, LAMBDA c : c \notin WhiteSpace)

IsSuffix(a, b) ==
    Len(a) <= Len(b) /\ a = SubSeq(b, Len(b) - Len(a) + 1, Len(b))

\* C11 as stated: the extracted sentences, concatenated in order and
\* followed by the remainder, are the original buffer, whitespace included.
C11_RoundTripExact ==
    seg_pc = "extracted"
    => Concat(seg_result.sentences) \o seg_result.buffer = seg_buffer

\* C11 amended: sentences are stripped, so the round trip holds up to
\* whitespace.  The extracted sentences followed by the remainder have the
\* non-whitespace characters of the buffer, all of them and in order; the
\* remainder is an end of the buffer, kept as it is, and nothing is added.
\* The same holds for the list split_into_sentences returns.
C11_RoundTripUpToWhitespace ==
    /\ seg_pc = "extracted" =>
          LET joined == Concat(seg_result.sentences) \o seg_result.buffer
          IN  /\ NoSpace(joined) = NoSpace(seg_buffer)
              /\ IsSubseq(joined, seg_buffer)
              /\ IsSuffix(seg_result.buffer, seg_buffer)
    /\ seg_pc = "split" =>
          /\ NoSpace(Concat(seg_split)) = NoSpace(seg_buffer)
          /\ IsSubseq(Concat(seg_split), seg_buffer)

\* Two sentences were extracted and whitespace of the buffer was dropped.
C11_Witness ==
    /\ seg_pc = "extracted"
    /\ Len(seg_result.sentences) = 2
    /\ Len(Concat(seg_result.sentences) \o seg_result.buffer) < Len(seg_buffer)

\* C12: every sentence the extraction loop returns is non-empty, ends with
\* a sentence-ending character and has no other one, and has no whitespace
\* at its ends; the remainder has no sentence-ending character.
C12_SentencesTerminated ==
    seg_pc = "extracted" =>
       /\ \A k \in 1..Len(seg_result.sentences) :
             LET sentence == seg_result.sentences[k]
             IN  /\ sentence # <<>>
                 /\ sentence[Len(sentence)] \in SentenceEndChars
                 /\ \A i \in 1..(Len(sentence) - 1) :
                       sentence[i] \notin SentenceEndChars
                 /\ Head(sentence) \notin WhiteSpace
       /\ \A i \in 1..Len(seg_result.buffer) :
             seg_result.buffer[i] \notin SentenceEndChars

\* Two sentences were extracted and unterminated text is left over.
C12_Witness ==
    /\ seg_pc = "extracted"
    /\ Len(seg_result.sentences) = 2
    /\ NoSpace(seg_result.buffer) # <<>>

\* "你好"
NiHao == <<20320, 22909>>

\* C13: merge_text returns new_text as the new last_text; with an empty
\* last_text it appends new_text whole to full_text; otherwise it appends
\* the part of new_text after the longest common prefix of last_text and
\* new_text.  So merge("", "", "你好") = ("你好", "你好") and
\* merge("你好", "你好", "你好世界") = ("你好世界", "你好世界").
C13_MergeAppendsBeyondPrefix ==
    merge_pc = "merged" =>
       LET full == merge_args.full_text
           last == merge_args.last_text
           new == merge_args.new_text
       IN  /\ merge_result[2] = new
           /\ last = <<>> => merge_result[1] = full \o new
           /\ last # <<>> =>
                 \E k \in 0..Len(new) :
                    /\ k <= Len(last)
                    /\ SubSeq(last, 1, k) = SubSeq(new, 1, k)
                    /\ k = Len(last) \/ k = Len(new) \/ last[k + 1] # new[k + 1]
                    /\ merge_result[1] = full \o SubSeq(new, k + 1, Len(new))
           /\ (full = <<>> /\ last = <<>> /\ new = NiHao)
                 => merge_result = << NiHao, NiHao >>
           /\ (full = NiHao /\ last = NiHao /\ new = NiHaoShiJie)
                 => merge_result = << NiHaoShiJie, NiHaoShiJie >>

\* merge("你好", "你好", "你好世界") has returned.
C13_Witness ==
    /\ merge_pc = "merged"
    /\ merge_args = [full_text |-> NiHao, last_text |-> NiHao,
                     new_text |-> NiHaoShiJie]

\* C14 as stated: when new_text is shorter than last_text, or differs from
\* it at the first character, the whole new_text is appended to full_text.
C14_ShorterOrDivergentAppendsAll ==
    LET last == merge_args.last_text
        new == merge_args.new_text
    IN  (/\ merge_pc = "merged"
         /\ last # <<>>
         /\ \/ Len(new) < Len(last)
            \/ (new # <<>> /\ last[1] # new[1]))
        => merge_result[1] = merge_args.full_text \o new

\* C14 amended: the whole new_text is appended when it differs from
\* last_text at the first character; a new_text that is shorter than
\* last_text and begins it shares all its characters with it, and nothing
\* is appended.
C14_DivergentAppendsAllPrefixNothing ==
    LET last == merge_args.last_text
        new == merge_args.new_text
    IN  merge_pc = "merged" =>
           /\ (last # <<>> /\ new # <<>> /\ last[1] # new[1])
                 => merge_result[1] = merge_args.full_text \o new
           /\ (last # <<>> /\ Len(new) < Len(last) /\ IsPrefix(new, last))
                 => merge_result[1] = merge_args.full_text

\* merge_text was given a non-empty new_text that is a shorter beginning
\* of last_text.
C14_Witness ==
    /\ merge_pc = "merged"
    /\ merge_args.new_text # <<>>
    /\ Len(merge_args.new_text) < Len(merge_args.last_text)
    /\ IsPrefix(merge_args.new_text, merge_args.last_text)

\* "你"
Ni == <<20320>>

\* C15: in a session started once, every result taken from the queue is
\* answered by one interim event carrying the merged transcript, which a
\* partial extending the last one extends by what is new; a silence
\* timeout is answered by one final event carrying the non-empty merged
\* transcript, leaves the session streaming with a fresh decoder cache, and
\* is followed by the reset of the state dict, so that no second final
\* event follows it unless an end message asks for one.  After the
\* partials "你" and "你好" the final event of the silence timeout (the
\* last event written, where the one of an end message is followed by the
\* ended status) carries "你好".
C15_InterimsThenOneFinal ==
    /\ [](ntasks = 1 =>
            /\ \A i \in 1..(Len(r_sent) - 1) :
                  (r_sent[i].type = "final" /\ r_sent[i + 1].type = "final")
                  => /\ i + 2 <= Len(r_sent)
                     /\ r_sent[i + 2] = REvent("status", <<>>, "ended")
            /\ (/\ Len(r_sent) = 4
                /\ r_sent[2] = REvent("interim", Ni, "")
                /\ r_sent[3] = REvent("interim", NiHao, "")
                /\ r_sent[4].type = "final")
               => r_sent[4].text = NiHao)
    /\ [][ \A t \in 1..MaxTasks :
             /\ (/\ tasks[t].pc = "poll" /\ tasks'[t].pc = "poll"
                 /\ r_connected
                 /\ result_queue # <<>>
                 /\ result_queue' = Tail(result_queue))
                => LET new == Head(result_queue).text
                   IN  /\ r_sent' = Append(r_sent,
                                 REvent("interim", r_state'.full_text, ""))
                       /\ r_state'.last_text = new
                       /\ IsPrefix(r_state.last_text, new)
                          => r_state'.full_text = r_state.full_text
                                \o SubSeq(new, Len(r_state.last_text) + 1,
                                          Len(new))
             /\ (tasks[t].pc = "poll" /\ tasks'[t].pc = "resetting")
                => /\ r_sent' = Append(r_sent,
                             REvent("final", r_state'.full_text, ""))
                   /\ r_state.full_text # <<>>
                   /\ streaming_started'
                   /\ stt_instance'.streaming_active
                   /\ stt_instance'.cache = "fresh"
             /\ (tasks[t].pc = "resetting" /\ tasks'[t].pc # "resetting")
                => r_state' = FreshState /\ r_sent' = r_sent ]_vars

\* One start; the partials "你" and "你好" gave two interim events, the
\* silence timeout one final event with "你好", and a later frame was
\* decoded into the interim event of a new utterance.
C15_Witness ==
    /\ ntasks = 1
    /\ streaming_started
    /\ r_sent = << REvent("status", <<>>, "started"),
                   REvent("interim", Ni, ""),
                   REvent("interim", NiHao, ""),
                   REvent("final", NiHao, ""),
                   REvent("interim", Ni, "") >>

\* A final event is among the events the step wrote.
FinalWritten ==
    \E i \in (Len(r_sent) + 1)..Len(r_sent') : r_sent'[i].type = "final"

\* C16: a step that writes a final event resets the decoder cache (forced
\* finalization) or releases it (stop at end); a forced finalization on an
\* open transport writes one final event; and the cache becomes fresh or
\* released in no step other than start, forced finalization and stop.
C16_CacheResetAtFinalOnly ==
    [][ /\ FinalWritten
           => /\ stt_op' \in {"force_final", "stop"}
              /\ stt_instance'.cache \in {"fresh", "None"}
        /\ (stt_op' = "force_final" /\ r_connected)
           => /\ FinalWritten
              /\ Len(r_sent') = Len(r_sent) + 1
        /\ (/\ stt_instance'.cache # stt_instance.cache
            /\ stt_instance'.cache \in {"fresh", "None"})
           => stt_op' \in {"start", "force_final", "stop"}
        /\ stt_op' = "force_final" => stt_instance'.cache = "fresh"
        /\ stt_op' = "stop" => stt_instance'.cache = "None" ]_vars

\* A silence timeout has just reset a used cache and written a final event.
C16_Witness ==
    /\ stt_op = "force_final"
    /\ stt_instance.cache = "fresh"
    /\ r_sent # <<>>
    /\ r_sent[Len(r_sent)].type = "final"

\* C17: writes to the client channel are serialized: stream_response and
\* a synthesis worker of the connection are never both inside a send_text
\* on the websocket.
C17_SendsSerialized ==
    ~(h_sending /\ w_sending # {})

\* The synthesis call of worker r ends without audio in this step: the
\* worker leaves the call on an open transport, not interrupted, not
\* cancelled and not inside a send, and nothing is written.
SynthesisFails(r) ==
    /\ worker[r].pc = "synth"
    /\ worker'[r] # worker[r]
    /\ worker'[r].pc # "cancelling"
    /\ r \notin w_sending
    /\ connected
    /\ ~ShouldInterruptTts(session_states, worker[r].session_id)
    /\ sent' = sent

\* C18: a synthesis failure for one sentence stops neither the worker nor
\* the request: the worker goes back to waiting on the queue, which keeps
\* its items, its completion event stays unset, and stream_response is
\* where it was; and a request that has returned on an open transport,
\* documents having been found, has response_end as its last event, so the
\* wait of a request always ends.
C18_SynthesisFailureNotFatal ==
    /\ [][ \A r \in Requests :
             SynthesisFails(r)
             => /\ worker'[r].pc = "poll"
                /\ tts_done' = tts_done
                /\ tts_queue' = tts_queue
                /\ hpc' = hpc ]_vars
    /\ []((hpc = "recv" /\ nreq >= 1 /\ connected /\ retrieved = "found")
            => sent[Len(sent)].type = "response_end")
    /\ [](hpc = "wait" => <>(hpc # "wait"))

\* Of the sentences "A?", "B;", "C" the first one's synthesis failed: the
\* audio of the second and the third went out, the worker ended on the
\* sentinel and the request ended with response_end.
C18_Witness ==
    /\ gen.script = ScriptMixed
    /\ nreq = 1
    /\ connected
    /\ hpc = "recv"
    /\ worker[1].pc = "done"
    /\ tts_queue = <<>>
    /\ Contents(OfType("audio_chunk")) = << <<66, 59>>, <<67>> >>
    /\ sent[Len(sent)].type = "response_end"

\* rag_chain.stream raises in this step (no fragment is consumed, where a
\* failed send of a fragment is caught after the fragment was taken).
GenerationRaises ==
    /\ hpc = "gen"
    /\ gen' = gen
    /\ gen_exit' = "error"

\* C19: when rag_chain.stream raises, stream_response goes on to the wait
\* for the worker with the stripped non-blank remainder and the sentinel
\* put on the queue, the accumulated text as it was and nothing written;
\* the stream is not read again for the request; and the response_end of
\* the request carries the accumulated text, the fragments yielded before
\* the exception joined.
C19_GenerationErrorDrains ==
    /\ [][ /\ GenerationRaises
               => /\ hpc' = "wait"
                  /\ enqueued' = enqueued
                        \o (IF Strip(sentence_buffer) # <<>>
                            THEN <<Strip(sentence_buffer)>> ELSE <<>>)
                        \o <<Sentinel>>
                  /\ Len(tts_queue') - Len(tts_queue)
                        = Len(enqueued') - Len(enqueued)
                  /\ response_text' = response_text
                  /\ sent' = sent
           /\ (gen_exit = "error" /\ nreq' = nreq)
               => /\ gen' = gen
                  /\ gen_exit' = "error"
                  /\ response_text' = response_text
                  /\ enqueued' = enqueued ]_vars
    /\ []((gen_exit = "error" /\ hpc = "recv" /\ connected)
            => /\ sent[Len(sent)].type = "response_end"
               /\ sent[Len(sent)].content = response_text
               /\ response_text = Concat(SubSeq(gen.script, 1, gen.pos)))

\* The stream raised after "你好，" and "世界。": "你好，世界。" was spoken
\* and response_end carries it.
C19_Witness ==
    /\ gen_exit = "error"
    /\ gen.script = ScriptGreeting
    /\ gen.pos = 2
    /\ connected
    /\ hpc = "recv"
    /\ enqueued = << ScriptGreeting[1] \o ScriptGreeting[2], Sentinel >>
    /\ sent[Len(sent)] =
          ResponseEnd(req.request_id, ScriptGreeting[1] \o ScriptGreeting[2],
                      sources, "false")

\* C20: a request whose retrieval raised, or whose generation raised
\* before any response_chunk was sent, has an error event among the events
\* written for it once stream_response has returned on an open transport;
\* a request whose generation raised after a response_chunk has none.
C20_ErrorEventBeforeOutput ==
    LET errors == OfType("error")
        chunks == OfType("response_chunk")
    IN  /\ (hpc = "recv" /\ connected /\ retrieved = "raised")
           => errors # <<>>
        /\ (hpc = "recv" /\ connected /\ gen_exit = "error" /\ chunks = <<>>)
           => errors # <<>>
        /\ (gen_exit = "error" /\ chunks # <<>>) => errors = <<>>

\* C21: a malformed inbound message (text that is not JSON on either
\* endpoint, an audio payload that is not base64 on the recognition
\* endpoint) is answered with an error event and the handler stays in its
\* receive loop; a handler leaves its loop only when the transport was
\* closed by the client.
C21_MalformedAnsweredLoopGoesOn ==
    [][ /\ (hpc = "recv" /\ data' = "not json")
           => /\ hpc' = "recv"
              /\ sent' = Append(sent, ErrorEvent)
        /\ (nmsg' = nmsg + 1 /\ r_message' \in {"not json", "audio not base64"})
           => /\ rpc' = "recv"
              /\ Len(r_sent') = Len(r_sent) + 1
              /\ r_sent'[Len(r_sent')].type = "error"
        /\ (hpc # "closed" /\ hpc' = "closed") => ~connected
        /\ (rpc # "closed" /\ rpc' = "closed") => ~r_connected ]_vars

\* The terminal events written for the current request.
Terminals == SelectSeq(sent, LAMBDA e : e.type \in {"response_end", "error"})

\* C22: a request whose response_start was sent has no terminal event
\* while stream_response runs and at most one ever; once stream_response
\* has returned on an open transport it has exactly one (response_end or
\* error), the last event written; and stream_response always returns or
\* the handler ends, whatever retrieval, generation and synthesis do.
C22_OneTerminalEvent ==
    /\ [](nreq >= 1 =>
            /\ sent[1].type = "response_start"
            /\ Len(Terminals) <= 1
            /\ hpc \in {"retrieve", "gen", "wait"} => Terminals = <<>>
            /\ (hpc = "recv" /\ connected)
               => /\ Len(Terminals) = 1
                  /\ sent[Len(sent)] = Terminals[1])
    /\ [](hpc \in {"retrieve", "gen", "wait"}
            => <>(hpc \in {"recv", "closed"}))

\* Generation raised and the synthesis of the remainder hung: the drain
\* timeout cancelled the worker and response_end went out.
C22_Witness ==
    /\ gen_exit = "error"
    /\ gen.pos >= 1
    /\ worker[nreq].pc = "cancelling"
    /\ connected
    /\ hpc = "recv"
    /\ Len(Terminals) = 1
    /\ sent[Len(sent)].type = "response_end"

\* The requests whose worker task is unfinished and does not see its
\* session interrupted.
Uninterrupted ==
    {r \in Requests :
        Alive(r) /\ ~ShouldInterruptTts(session_states, worker[r].session_id)}

C24_SessionEntriesLifecycle ==
    /\ hpc # "closed"
       => /\ active_connections = {SessionId}
          /\ DOMAIN user_sessions = {SessionId}
          /\ DOMAIN session_states = {SessionId}
    /\ hpc = "closed"
       => /\ SessionId \notin active_connections
          /\ SessionId \notin DOMAIN user_sessions
          /\ SessionId \notin DOMAIN session_states

\* The handler served a request and then ended by the exception of a text
\* that is not JSON: the session's entries are gone.
C24_Witness ==
    /\ hpc = "closed"
    /\ nreq >= 1
    /\ data = "not json"
    /\ active_connections = {}
    /\ DOMAIN session_states = {}

\* The stop sentinels put on the current request's queue so far.
Sentinels == SelectSeq(enqueued, LAMBDA item : item = Sentinel)

\* C27: the step that leaves the generation loop, however it is left, goes
\* on to the wait with the stripped non-blank remainder, if any, and then
\* the sentinel put on the queue; no sentinel is put while the loop runs,
\* exactly one has been put once it is left, as the last item, and nothing
\* is put on the request's queue after it.
C27_DrainOnEveryExit ==
    /\ [](/\ hpc \in {"retrieve", "gen"} => Sentinels = <<>>
          /\ gen_exit # "none"
             => /\ Len(Sentinels) = 1
                /\ enqueued[Len(enqueued)] = Sentinel)
    /\ [][ /\ (hpc = "gen" /\ hpc' # "gen")
               => /\ hpc' = "wait"
                  /\ gen_exit' \in {"exhausted", "error", "interrupted"}
                  /\ enqueued' = enqueued
                        \o (IF Strip(sentence_buffer') # <<>>
                            THEN <<Strip(sentence_buffer')>> ELSE <<>>)
                        \o <<Sentinel>>
           /\ (Sentinels # <<>> /\ nreq' = nreq) => enqueued' = enqueued ]_vars

\* "A?B; ", "", " C" was generated to its end: the sentences "A?" and
\* "B;", the remainder "C" and the sentinel were put, in this order.
C27_Witness ==
    /\ gen.script = ScriptMixed
    /\ gen_exit = "exhausted"
    /\ enqueued = << <<65, 63>>, <<66, 59>>, <<67>>, Sentinel >>

\* C28: the response_end written for a request that reached generation
\* carries the request's id, as full text the contents of the request's
\* response_chunk events joined in order, the citations built when the
\* documents were retrieved, and the interruption flag as the registry
\* holds it in the step that builds the event.
C28_ResponseEndSummary ==
    [][ (/\ hpc = "wait"
         /\ Len(sent') = Len(sent) + 1
         /\ sent'[Len(sent')].type = "response_end")
        => LET e == sent'[Len(sent')]
           IN  /\ e.requestId = req.request_id
               /\ e.content = Concat(Contents(OfType("response_chunk")))
               /\ e.sources = sources
               /\ sources # <<>>
               /\ e.isInterrupted =
                     (IF req.session_id = None THEN "null"
                      ELSE IF session_states[req.session_id].is_interrupted
                      THEN "true" ELSE "false") ]_vars

\* "A?B; " and " C" were relayed and response_end carries "A?B;  C".
C28_Witness ==
    /\ gen.script = ScriptMixed
    /\ hpc = "recv"
    /\ Len(OfType("response_chunk")) = 2
    /\ sent[Len(sent)].type = "response_end"
    /\ sent[Len(sent)].content = <<65, 63, 66, 59, 32, 32, 67>>
    /\ sent[Len(sent)].sources = sources

\* C29: a silence-triggered forced finalization in which the decoder
\* raises returns no text, so that nothing is merged, and leaves the
\* decoder streaming with a fresh cache and the session streaming; on an
\* open transport the final event with the merged transcript is written
\* all the same and the task goes on to reset the state dict, after which
\* it polls again.
C29_FailedFinalizationResets ==
    [][ /\ stt_log' = "force_final_and_reset failed"
           => /\ stt_instance'.cache = "fresh"
              /\ stt_instance'.streaming_active
              /\ streaming_started'
              /\ r_state.full_text # <<>>
              /\ r_state'.full_text = r_state.full_text
              /\ r_connected
                 => /\ r_sent' = Append(r_sent,
                                       REvent("final", r_state.full_text, ""))
                    /\ \E t \in 1..MaxTasks :
                          tasks[t].pc = "poll" /\ tasks'[t].pc = "resetting"
        /\ \A t \in 1..MaxTasks :
              (tasks[t].pc = "resetting" /\ tasks'[t] # tasks[t])
              => /\ r_state' = FreshState
                 /\ streaming_started => tasks'[t].pc = "poll" ]_vars

\* The decoder raised in the forced finalization after "你好": its cache
\* is fresh and the final event "你好" is out.
C29_Witness ==
    /\ stt_log = "force_final_and_reset failed"
    /\ stt_instance.cache = "fresh"
    /\ r_connected
    /\ r_sent[Len(r_sent)] = REvent("final", NiHao, "")

\* C30: a frame on which the decoder raises is dropped and nothing else
\* happens: no event is written, no result is queued, the merged
\* transcript and the tasks are as they were, the handler stays in its
\* loop with the session streaming, and the decoder stays active with its
\* cache, ready for the next frame.
C30_DecodeErrorDropsFrame ==
    [][ stt_log' = "send_audio_frame failed"
        => /\ r_sent' = r_sent
           /\ result_queue' = result_queue
           /\ r_state' = r_state
           /\ tasks' = tasks
           /\ rpc' = "recv"
           /\ streaming_started'
           /\ stt_instance'.streaming_active
           /\ stt_instance'.cache = stt_instance.cache
           /\ stt_instance'.audio_buffer < ChunkStride ]_vars

\* After the interim event "你" a frame failed to decode: the session is
\* streaming and nothing was written for the frame.
C30_Witness ==
    /\ stt_log = "send_audio_frame failed"
    /\ streaming_started
    /\ stt_instance.streaming_active
    /\ rpc = "recv"
    /\ r_sent = << REvent("status", <<>>, "started"),
                   REvent("interim", Ni, "") >>

\* A process_results task writes a final event in this step (the handler,
\* which writes the final event of an end message, reads no message).
WatchdogFinal ==
    /\ nmsg' = nmsg
    /\ Len(r_sent') = Len(r_sent) + 1
    /\ r_sent'[Len(r_sent')].type = "final"

\* C31: the silence watchdog writes a final event only in a streaming
\* session whose merged transcript is not empty and whose last result is
\* at least SILENCE_TIMEOUT old; the event carries the merged transcript
\* and no final event ever carries an empty text; the step leaves the
\* session streaming, and when the send has returned the task resets
\* full_text, last_text and last_recog_time without touching the session.
C31_WatchdogFinalOnlyAfterQuiet ==
    /\ [](\A i \in 1..Len(r_sent) :
              r_sent[i].type = "final" => r_sent[i].text # <<>>)
    /\ [][ /\ WatchdogFinal
               => /\ streaming_started
                  /\ stt_instance.streaming_active
                  /\ r_state.full_text # <<>>
                  /\ r_state.last_recog_time = "old"
                  /\ r_sent'[Len(r_sent')].text = r_state'.full_text
                  /\ streaming_started'
                  /\ stt_instance'.streaming_active
                  /\ \E t \in 1..MaxTasks :
                        tasks[t].pc = "poll" /\ tasks'[t].pc = "resetting"
           /\ \A t \in 1..MaxTasks :
                 (tasks[t].pc = "resetting" /\ tasks'[t] # tasks[t])
                 => /\ r_state' = FreshState
                    /\ streaming_started' = streaming_started
                    /\ stt_instance' = stt_instance ]_vars

\* After the partial "你好" and a quiet interval the watchdog wrote the
\* final event "你好" and reset the state dict; the session is streaming.
C31_Witness ==
    /\ ntasks = 1
    /\ streaming_started
    /\ stt_instance.streaming_active
    /\ tasks[1].pc = "poll"
    /\ r_state = FreshState
    /\ r_sent = << REvent("status", <<>>, "started"),
                   REvent("interim", NiHao, ""),
                   REvent("final", NiHao, "") >>

\* C32: the step that handles an end message leaves the session idle:
\* streaming_started is false and the decoder, if there is one, is
\* inactive with its cache, audio buffer and callback released, whether
\* its last decode raised or not; the handler stays in its loop and the
\* ended status is the last event written.  An audio message read while
\* no session is streaming changes nothing but the message count.  A task
\* that runs with streaming ended and the queue empty stops, and every
\* task stops after an end unless a new start comes first.
C32_EndLeavesIdle ==
    /\ [][ /\ (nmsg' = nmsg + 1 /\ r_message' = "end")
               => /\ ~streaming_started'
                  /\ ~stt_instance'.streaming_active
                  /\ stt_instance'.cache = "None"
                  /\ stt_instance'.audio_buffer = 0
                  /\ ~stt_instance'.callback
                  /\ rpc' = "recv"
                  /\ r_sent'[Len(r_sent')] = REvent("status", <<>>, "ended")
           /\ (nmsg' = nmsg + 1 /\ r_message' = "audio" /\ ~streaming_started)
               => /\ stt_instance' = stt_instance
                  /\ stt_log' = "none"
                  /\ result_queue' = result_queue
                  /\ r_state' = r_state
                  /\ r_sent' = r_sent
                  /\ tasks' = tasks
                  /\ ~streaming_started'
           /\ \A t \in 1..MaxTasks :
                 (/\ tasks[t].pc \in {"poll", "resetting"}
                  /\ tasks'[t] # tasks[t]
                  /\ ~streaming_started
                  /\ result_queue = <<>>)
                 => tasks'[t].pc = "done" ]_vars
    /\ \A t \in 1..MaxTasks :
          [](~streaming_started
               => <>(tasks[t].pc \in {"none", "done"} \/ streaming_started))

\* An end message was handled in a session with half a chunk left in the
\* decoder's buffer, on which the decoder raised: the decoder is released
\* all the same and the ended status is out, with no final event.
C32_Witness ==
    /\ r_message = "end"
    /\ stt_log = "stop_streaming failed"
    /\ ~streaming_started
    /\ ~stt_instance.streaming_active
    /\ stt_instance.cache = "None"
    /\ stt_instance.audio_buffer = 0
    /\ ~stt_instance.callback
    /\ r_sent = << REvent("status", <<>>, "started"),
                   REvent("status", <<>>, "ended") >>

\* The process_results tasks that have been created and have not ended.
ActiveTasks == {t \in 1..MaxTasks : tasks[t].pc \notin {"none", "done"}}

\* C33: a recognition connection has at most one process_results task that
\* has not ended, whatever start, audio and end messages it has read.
C33_OneResultsTask ==
    Cardinality(ActiveTasks) <= 1

WorkerWrites(r) ==
    /\ worker[r].pc = "synth"
    /\ worker'[r] # worker[r]
    /\ sent' # sent

\* C35: a request starts only when the handler is at receive_text, that
\* is when stream_response of the request before it has returned, for
\* send_message and send_audio alike; while stream_response runs, every
\* event written is one event appended for the current request, with its
\* request id, by stream_response or by the current request's worker; and
\* between requests no worker writes.
C35_RequestsOneAtATime ==
    [][ /\ nreq' # nreq
           => /\ nreq' = nreq + 1
              /\ hpc = "recv"
              /\ hpc' = "retrieve"
        /\ (nreq' = nreq /\ hpc \in {"retrieve", "gen", "wait"} /\ sent' # sent)
           => /\ Len(sent') = Len(sent) + 1
              /\ SubSeq(sent', 1, Len(sent)) = sent
              /\ sent'[Len(sent')].requestId \in {req.request_id, NoRequestId}
        /\ \A r \in Requests :
              WorkerWrites(r) => /\ r = nreq
                                 /\ hpc \in {"gen", "wait"}
                                 /\ sent'[Len(sent')].requestId = req.request_id
        /\ (hpc \in {"recv", "closed"} /\ sent' # sent)
           => /\ hpc = "recv"
              /\ data' \in {"send_message", "send_audio"}
              /\ sent'[1].type \in {"response_start", "transcription", "error"}
              /\ worker' = worker ]_vars

\* A send_message request ran to its end, and then a send_audio request,
\* whose audio went out before its response_end.
C35_Witness ==
    /\ nreq = 2
    /\ hpc = "recv"
    /\ session_states[SessionId].current_request_id # NoRequestId
    /\ req.session_id = None
    /\ worker[1].pc = "done"
    /\ worker[2].pc = "done"
    /\ OfType("audio_chunk") # <<>>
    /\ sent[1].type = "transcription"
    /\ sent[Len(sent)].type = "response_end"

\* C36: no audio_chunk follows the response_end of its request: a
\* response_end is the last event written until the next message is read;
\* the step that leaves the wait for the worker finds the worker finished
\* with its completion event set, or cancels it; a worker that is
\* cancelled or finished writes nothing; and an audio_chunk is written
\* only while stream_response is in its generation loop or its wait.
C36_AudioBeforeResponseEnd ==
    /\ [](\A i \in 1..Len(sent) :
              sent[i].type = "response_end" => i = Len(sent))
    /\ [][ /\ (hpc = "wait" /\ hpc' # "wait")
               => \/ tts_done[nreq] /\ worker[nreq].pc = "done"
                  \/ worker'[nreq].pc = "cancelling"
           /\ \A r \in Requests :
                 (worker[r].pc \in {"cancelling", "done"} /\ worker'[r] # worker[r])
                 => /\ sent' = sent
                    /\ worker'[r].pc = "done"
           /\ (sent' # sent /\ sent'[Len(sent')].type = "audio_chunk")
               => /\ hpc \in {"gen", "wait"}
                  /\ hpc' = hpc
                  /\ OfType("response_end") = <<>> ]_vars

\* Of "A?", "B;" and "C" the audio of "A?" went out and the synthesis of
\* "B;" hung: the drain timeout cancelled the worker and response_end is
\* the last event.
C36_Witness ==
    /\ gen.script = ScriptMixed
    /\ gen_exit = "exhausted"
    /\ hpc = "recv"
    /\ connected
    /\ worker[nreq].pc = "cancelling"
    /\ Contents(OfType("audio_chunk")) = << <<65, 63>> >>
    /\ sent[Len(sent)].type = "response_end"

\* C37: when the generation loop has run to the end of the stream, without
\* interruption or error, the items put on the queue before the sentinel
\* are the sentences split_into_sentences gives for the whole text,
\* however the text was cut into fragments.
C37_SentencesIndependentOfFragments ==
    seg_pc = "streamed"
    => seg_stream.enqueued = split_into_sentences(seg_buffer) \o <<Sentinel>>

\* "A? A" streamed one character at a time, the space after the sentence
\* arriving when the sentence was already cut: "A?" and "A" were put.
C37_Witness ==
    /\ seg_pc = "streamed"
    /\ seg_buffer = <<65, 63, 32, 65>>
    /\ seg_stream.fragments = 4
    /\ seg_stream.enqueued = << <<65, 63>>, <<65>>, Sentinel >>

\* The positions of the sentence-ending characters of a text.
Endings(text) == {i \in 1..Len(text) : text[i] \in SentenceEndChars}

\* C38: the extraction loop terminates on every buffer: the pattern
\* matches exactly when the buffer has a sentence-ending character, a
\* match ends at least one character into the buffer and not past its
\* end, so that the buffer left for the next turn is strictly shorter; the
\* loop returns at most one sentence per sentence-ending character and
\* leaves a remainder without any.
C38_ExtractionTerminates ==
    LET e == MatchEnd(seg_buffer)
    IN  /\ Endings(seg_buffer) = {} => e = 0
        /\ Endings(seg_buffer) # {}
           => /\ 1 <= e
              /\ e <= Len(seg_buffer)
              /\ Len(SubSeq(seg_buffer, e + 1, Len(seg_buffer)))
                    < Len(seg_buffer)
        /\ seg_pc = "extracted"
           => /\ Len(seg_result.sentences) <= Cardinality(Endings(seg_buffer))
              /\ Endings(seg_result.buffer) = {}
              /\ Len(seg_result.buffer) <= Len(seg_buffer)

\* "??A?" was cut into "?", "?" and "A?": three turns, one per
\* sentence-ending character, and nothing left.
C38_Witness ==
    /\ seg_pc = "extracted"
    /\ seg_buffer = <<63, 63, 65, 63>>
    /\ seg_result = [sentences |-> << <<63>>, <<63>>, <<65, 63>> >>,
                     buffer |-> <<>>]

\* A registry in which the session's flag is set.
Flagged ==
    [s \in {SessionId} |-> [current_request_id |-> 1, is_interrupted |-> TRUE]]

\* C39: while a send_audio message is being handled, the steps of the
\* handler and of the workers leave the session's registry entry as it
\* was (until the handler ends and removes it); every event written
\* carries no request id, the response_end has isInterrupted null; and
\* should_interrupt_tts() of the request's stream_response and of its
\* worker is false even on a registry whose flag is set.
C39_SendAudioBypassesRegistry ==
    /\ [](data = "send_audio"
            => /\ \A i \in 1..Len(sent) :
                     /\ sent[i].requestId = NoRequestId
                     /\ sent[i].type = "response_end"
                        => sent[i].isInterrupted \in {"null", "absent"}
               /\ hpc \in {"retrieve", "gen", "wait"}
                  => /\ ~ShouldInterruptTts(Flagged, req.session_id)
                     /\ worker[nreq].pc # "none"
                        => ~ShouldInterruptTts(Flagged,
                                               worker[nreq].session_id)
                     /\ gen_exit # "interrupted")
    /\ [][ (data' = "send_audio" /\ hpc' # "closed")
           => session_states' = session_states ]_vars

\* After a send_message with its request id in the registry, a send_audio
\* request ran to its end: its audio and its response_end carry no
\* request id and the registry still names the send_message request.
C39_Witness ==
    /\ data = "send_audio"
    /\ hpc = "recv"
    /\ connected
    /\ session_states[SessionId] =
          [current_request_id |-> 1, is_interrupted |-> FALSE]
    /\ OfType("audio_chunk") # <<>>
    /\ sent[Len(sent)].type = "response_end"
    /\ sent[Len(sent)].isInterrupted = "null"

\* C40: the final event written for an end message (the one followed by
\* the ended status) is the last transcription event of its utterance: no
\* interim event is written after it unless the started status of a new
\* start comes between.
C40_EndFinalIsLast ==
    \A i \in 1..Len(r_sent) : \A j \in 1..Len(r_sent) :
        (/\ i < j
         /\ r_sent[i].type = "final"
         /\ r_sent[i + 1] = REvent("status", <<>>, "ended")
         /\ r_sent[j].type = "interim")
        => \E k \in (i + 1)..(j - 1) :
              r_sent[k] = REvent("status", <<>>, "started")

====
